---- MODULE Spec2Model ----
(***************************************************************************)
(* Orchestration layer of watertap-reflo:                                  *)
(*   - analysis/case_studies/KBHDP/main.py: main, add_connections,         *)
(*     add_constraints, set_operating_conditions, init_system, solve;      *)
(*   - analysis/case_studies/permian/data/pysam_run_permian_trough.py:     *)
(*     load_config, setup_model.                                           *)
(* A behaviour is one run of one entry point.  The external framework      *)
(* (unit initializers, degrees_of_freedom, the nonlinear solver, the       *)
(* PySAM module) is a nondeterministic choice over the outcomes it can     *)
(* produce; `log` records, in program order, every call the run makes to   *)
(* it and every diagnostic it prints.                                      *)
(***************************************************************************)
EXTENDS Integers, Sequences, FiniteSets, TLC

VARIABLES
    entry,          \* entry point of this run: "main", "solve", "load_config", "setup_model"
    status,         \* "running", "returned" or "raised"
    error,          \* exception type that ended the run, "none" otherwise
    log,            \* calls, prints and fixings, in the order the run made them
    mainIp,         \* index in MainBody of the statement main executes next
    initIp,         \* index in InitSystemBody of the statement init_system executes next
    arcs,           \* Arc components declared on m.fs
    expandCount,    \* number of applications of network.expand_arcs
    sysVars,        \* system-level Vars / Constraints declared by add_constraints
    fixed,          \* variables fixed by set_inlet_conditions
    dof,            \* degrees_of_freedom(m) of the assembled system
    initialized,    \* units whose local initialization completed
    propagated,     \* arcs whose state was propagated
    solverCalls,    \* number of solver.solve(model) calls made by solve
    solverArg,      \* solve's `solver` argument: "None" or "given"
    raiseOnFailure, \* solve's raise_on_failure argument
    termination,    \* termination condition the solver reported to solve, "none" before
    result,         \* value returned by solve: a termination condition, "none" before
    nMods,          \* len(modules) of the load_config call
    fileNames,      \* load_config's file_names: None, or Some(its length)
    moduleData,     \* load_config's module_data: None, or Some(its length)
    lcI,            \* loop index i of load_config (1-based), 0 when not running
    mods,           \* parameter values assigned to each module: set of <<key, value>>
    valueCalls,     \* modules[i].value(k, v) calls made by the current / last loop iteration
    missing,        \* missing_values of the current / last loop iteration
    lastData,       \* dictionary `data` of the last loop iteration of load_config
    weather,        \* setup_model's weather source: "file", "data" or "none"
    retModel,       \* TRUE when setup_model returned its {"tech_model": ...} dictionary
    techModel,      \* run_model: the PySAM module, [q_pb_design, tshours, outputs]
    heatLoadArg,    \* run_model's heat_load: None or Some(value in MWt)
    hoursStorageArg,\* run_model's hours_storage: None or Some(value in hours)
    runResult,      \* dictionary returned by run_model, NoResult before
    swPc,           \* position of the sweep script: "start", "pool", "gathered", "written"
    swConfig,       \* config_data[0] the sweep passes to every evaluation
    df,             \* the data frame `df`: sequence of rows
    raising,        \* the evaluations whose tech_model.execute() raises
    nextChunk,      \* index of the next chunk of `arguments` the pool hands out
    workers,        \* the busy workers of the pool: for each the evaluation it is
                    \* at, its model instance and the parameters assigned to it
    instCount,      \* number of model instances created by iph.new() so far
    taskSt,         \* per evaluation: "pending", "running", "ok", "failed", or
                    \* "skipped" when an earlier one of its chunk failed
    instances,      \* the model instances iph.new() has created so far
    taskResult,     \* per evaluation: the dictionary setup_and_run returned
    outOfOrder,     \* TRUE once an evaluation ended before an earlier submitted one
    results,        \* list returned by pool.starmap
    pickled,        \* rows written by df.to_pickle, << >> before
    plots,          \* titles of the plot_3d calls that completed, in order
    inletArgs,      \* set_inlet_conditions' arguments Qin, water_recovery, primary_pump_pressure
    fixedVal,       \* value of every variable fixed by set_inlet_conditions: num / den
    scaling,        \* the default-scaling tables of the two property packages and
                    \* the factors set on variables, each value num / den
    trIp,           \* index in InitializeBuildBody of the statement executed next, 0 when idle
    trough,         \* the TroughSurrogate unit: its name, variables and parameters
    trData,         \* the data frame handed to the surrogate
    trOut,          \* init_output, the surrogate's answer
    trRes,          \* termination condition of the unit's local solve, "none" before
    trMsg,          \* message of the InitializationError raised, << >> otherwise
    sfCalls,        \* number of calculate_scaling_factors calls made on the trough unit
    trSf,           \* scaling factor of each variable of the trough unit, or unset
    trSfInit,       \* the scaling factors before the first call
    trSfOnce        \* the scaling factors after the first call

vars == << entry, status, error, log, mainIp, initIp, arcs, expandCount, sysVars,
           fixed, dof, initialized, propagated, solverCalls, solverArg,
           raiseOnFailure, termination, result, nMods, fileNames, moduleData, lcI, mods,
           valueCalls, missing, lastData, weather, retModel,
           techModel, heatLoadArg, hoursStorageArg, runResult,
           swPc, swConfig, df, raising, nextChunk, workers, instCount, taskSt, instances,
           taskResult, outOfOrder, results, pickled, plots,
           inletArgs, fixedVal, scaling,
           trIp, trough, trData, trOut, trRes, trMsg,
           sfCalls, trSf, trSfInit, trSfOnce >>

mainVars   == << mainIp, initIp, arcs, expandCount, sysVars, fixed, dof,
                 initialized, propagated >>
solveVars  == << solverCalls, termination, result >>
solveArgs  == << solverArg, raiseOnFailure >>
configVars == << nMods, fileNames, moduleData, lcI, mods, valueCalls, missing,
                 lastData, weather, retModel >>
runVars    == << techModel, heatLoadArg, hoursStorageArg, runResult >>
poolVars   == << raising, nextChunk, workers, instCount, taskSt, instances, taskResult,
                 outOfOrder >>
sweepVars  == << swPc, swConfig, df, poolVars, results, pickled, plots >>
inletVars  == << inletArgs, fixedVal, scaling >>
troughVars == << trIp, trough, trData, trOut, trRes, trMsg >>
sfVars     == << sfCalls, trSf, trSfInit, trSfOnce >>
restVars   == << runVars, sweepVars, inletVars, troughVars, sfVars >>

----------------------------------------------------------------------------
(* Bounds of the model *)

MaxDof == 2          \* degrees_of_freedom(m) ranges over 0..MaxDof
MaxModules == 2      \* len(modules), len(file_names), len(module_data) <= MaxModules
MaxDictLen == 2      \* number of keys of one parameter dictionary
HeatLoadSteps == 3   \* points of the heat_load axis the model runs (50 in the script)
StorageSteps == 3    \* points of the hours_storage axis the model runs (25 in the script)
PoolSize == 2        \* workers of the pool the model runs (6 in the script)
MaxSfCalls == 2      \* calculate_scaling_factors is called at most MaxSfCalls times
MaxQin == 2          \* set_inlet_conditions' Qin ranges over 1..MaxQin kg/s
MaxEnergySteps == 3  \* the simulation's annual energy ranges over 0..MaxEnergySteps half MW-years

----------------------------------------------------------------------------
(* Events of the log *)

Ev(k, x) == [k |-> k, x |-> x]

\* indices of the events of kind k in sequence s
Idx(s, k) == {i \in 1..Len(s) : s[i].k = k}

\* indices of the event Ev(k, x) in sequence s
IdxOf(s, k, x) == {i \in 1..Len(s) : s[i] = Ev(k, x)}

----------------------------------------------------------------------------
(* KBHDP flowsheet: units, arcs, property packages *)

Units == {"feed", "primary_pump", "softener", "MCAS_to_NaCl_translator",
          "UF", "RO", "product", "disposal"}

\* add_connections: the Arc declarations in program order, source and destination unit
ArcDecls ==
    << [name |-> "feed_to_primary_pump",     src |-> "feed",         dst |-> "primary_pump"],
       [name |-> "primary_pump_to_softener", src |-> "primary_pump", dst |-> "softener"],
       [name |-> "softener_to_translator",   src |-> "softener",     dst |-> "MCAS_to_NaCl_translator"],
       [name |-> "translator_to_UF",         src |-> "MCAS_to_NaCl_translator", dst |-> "UF"],
       [name |-> "UF_to_ro_feed",            src |-> "UF",           dst |-> "RO"],
       [name |-> "ro_to_product",            src |-> "RO",           dst |-> "product"],
       [name |-> "ro_to_disposal",           src |-> "RO",           dst |-> "disposal"] >>

ArcNames == {ArcDecls[i].name : i \in 1..Len(ArcDecls)}

ArcOf(a) == CHOOSE d \in {ArcDecls[i] : i \in 1..Len(ArcDecls)} : d.name = a

\* build_system: the property package each unit is built with; the translator
\* has an inlet package and an outlet package. The UF and RO sub-flowsheets are
\* built by build_UF(m, m.fs.UF) and build_ro(m, m.fs.RO, number_of_stages=1),
\* which are given no package: build_system does not determine theirs
BuildPackages ==
    [ feed |-> [in |-> "MCAS", out |-> "MCAS"],
      product |-> [in |-> "NaCl", out |-> "NaCl"],
      disposal |-> [in |-> "NaCl", out |-> "NaCl"],
      primary_pump |-> [in |-> "MCAS", out |-> "MCAS"],
      MCAS_to_NaCl_translator |-> [in |-> "MCAS", out |-> "NaCl"],
      softener |-> [in |-> "MCAS", out |-> "MCAS"] ]

\* property context of the inlet / outlet ports of a unit build_system gives a
\* package
InletContext(u) == BuildPackages[u].in
OutletContext(u) == BuildPackages[u].out

\* add_connections, variant: the expansion is applied before the last two arcs exist
AddConnectionsBodyEarlyExpand ==
    [i \in 1..5 |-> Ev("arc", ArcDecls[i].name)]
        \o << Ev("expand_arcs", "m") >>
        \o [i \in 1..2 |-> Ev("arc", ArcDecls[i + 5].name)]

\* add_connections: seven Arc declarations, then TransformationFactory(...).apply_to(m)
AddConnectionsBody ==
    [i \in 1..Len(ArcDecls) |-> Ev("arc", ArcDecls[i].name)]
        \o << Ev("expand_arcs", "m") >>

\* add_constraints: the components it declares on m.fs
AddConstraintsBody ==
    << Ev("declare", "water_recovery"), Ev("declare", "feed_flow_mass"),
       Ev("declare", "feed_flow_vol"), Ev("declare", "perm_flow_mass"),
       Ev("declare", "eq_water_recovery") >>

\* set_inlet_conditions: the solutes of inlet_dict in insertion order
InletSolutes == << "Ca_2+", "Mg_2+", "Alkalinity_2-", "SiO2", "Cl_-", "Na_+", "K_+", "SO2_-4+" >>

\* inlet_dict, variant: SiO2 at 0.051 kg/m3
InletDictSilicaHigh ==
    << <<"Ca_2+", 130>>, <<"Mg_2+", 30>>, <<"Alkalinity_2-", 80>>, <<"SiO2", 51>>,
       <<"Cl_-", 1180>>, <<"Na_+", 770>>, <<"K_+", 16>>, <<"SO2_-4+", 230>> >>

\* inlet_dict: the solutes' concentrations, in g/m3 (the code's kg/m3 times 1000)
InletDict ==
    << <<"Ca_2+", 130>>, <<"Mg_2+", 30>>, <<"Alkalinity_2-", 80>>, <<"SiO2", 31>>,
       <<"Cl_-", 1180>>, <<"Na_+", 770>>, <<"K_+", 16>>, <<"SO2_-4+", 230>> >>

\* a rational value num / den
Frac(n, d) == [num |-> n, den |-> d]

\* the water flow set_inlet_conditions fixes: Qin, or 1 when Qin is None
WaterFlow(Qin) == IF Qin = {} THEN 1 ELSE CHOOSE q \in Qin : TRUE

\* water_flow / (1000 kg/m3) * solute_conc in kg/s, the concentration c in g/m3
SoluteFlow(q, c) == Frac(q * c, 1000 * 1000)

\* set_default_scaling, variant: the build-time default 10**-1 is kept
DefaultScalingKept(v) == Frac(1, 10)

\* 1 / value(...)
DefaultScaling(v) == Frac(v.den, v.num)

\* the operating-mode fixings, variant: a supplied water_recovery is fixed as well
ModeFixingsWithRecovery(wr, ppp) ==
    [x \in {"primary_pump.outlet.pressure"} \cup
           (IF wr = {} THEN {} ELSE {"water_recovery"}) |->
        IF x = "water_recovery" THEN Frac(CHOOSE r \in wr : TRUE, 100) ELSE Frac(ppp, 1)]

\* the operating-mode fixings of set_inlet_conditions: the primary pump's outlet
\* pressure is fixed; water_recovery is not used
ModeFixings(wr, ppp) ==
    [x \in {"primary_pump.outlet.pressure"} |-> Frac(ppp, 1)]

\* the scaling factors of a flowsheet on which build_system has not run
NoScaling == [MCAS_properties |-> << >>, RO_properties |-> << >>, variables |-> << >>]

\* the values calc_scale may return for the feed's initial water flow
CalcScaleValues == {-1, 0, 2}

\* 10**-scale_flow
TenToMinus(k) == IF k >= 0 THEN Frac(1, 10 ^ k) ELSE Frac(10 ^ (0 - k), 1)

\* build_system: the default scaling of flow_mass_phase_comp it sets on the two
\* property packages, scale_flow being what calc_scale returned
BuildDefaultScaling(scale_flow) ==
    [ MCAS_properties |-> [x \in {"H2O", "NaCl"} |->
                              IF x = "H2O" THEN TenToMinus(scale_flow) ELSE Frac(1, 10)],
      RO_properties   |-> [x \in {"H2O", "NaCl"} |->
                              IF x = "H2O" THEN TenToMinus(scale_flow) ELSE Frac(1, 100)],
      variables       |-> << >> ]

\* set_inlet_conditions(m, Qin, Cin, water_recovery, primary_pump_pressure):
\* the values it fixes and the scaling factors it leaves, sc being the scaling
\* factors of the flowsheet it is called on
SetInletConditions(a, sc) ==
    LET q == WaterFlow(a.Qin)
        water == [x \in {"feed.flow_mass_phase_comp[H2O]"} |-> Frac(q, 1)]
        solutes == [x \in {InletDict[i][1] : i \in 1..Len(InletDict)} |->
                      SoluteFlow(q, (CHOOSE e \in {InletDict[i] : i \in 1..Len(InletDict)} :
                                        e[1] = x)[2])]
        feed == [x \in {"feed.pressure", "feed.temperature",
                        "primary_pump.efficiency_pump"} |->
                   CASE x = "feed.pressure" -> Frac(101325, 1)
                     [] x = "feed.temperature" -> Frac(29315, 100)
                     [] x = "primary_pump.efficiency_pump" -> Frac(85, 100)]
    IN  [ fixedVal |-> water @@ solutes
                         @@ ModeFixings(a.water_recovery, a.primary_pump_pressure) @@ feed,
          scaling  |->
              [ MCAS_properties |-> [x \in DOMAIN solutes |-> DefaultScaling(solutes[x])]
                                       @@ [x \in {"H2O"} |-> DefaultScaling(Frac(q, 1))]
                                       @@ sc.MCAS_properties,
                RO_properties   |-> sc.RO_properties,
                variables       |-> [x \in {"primary_pump.control_volume.work"} |->
                                        Frac(1, 1000)] @@ sc.variables ] ]

\* set_inlet_conditions: .fix() and scaling calls and the closing report, in
\* program order
SetInletConditionsBody ==
    << Ev("fix", "feed.flow_mass_phase_comp[H2O]") >>
        \o [i \in 1..(2 * Len(InletSolutes)) |->
              IF i % 2 = 1 THEN Ev("fix", InletSolutes[(i + 1) \div 2])
                           ELSE Ev("scale", InletSolutes[i \div 2])]
        \o << Ev("scale", "H2O"),
              Ev("fix", "primary_pump.outlet.pressure"),
              Ev("fix", "feed.pressure"),
              Ev("fix", "feed.temperature"),
              Ev("fix", "primary_pump.efficiency_pump"),
              Ev("scale", "primary_pump.control_volume.work"),
              Ev("report", "report_MCAS_stream_conc") >>

\* set_operating_conditions: set_inlet_conditions, then the two unit-level setters
MainInletArgs == [Qin |-> {1}, water_recovery |-> {}, primary_pump_pressure |-> 3000000]

SetOperatingConditionsBody ==
    SetInletConditionsBody
        \o << Ev("call", "set_softener_op_conditions"),
              Ev("call", "set_ro_system_operating_conditions") >>


----------------------------------------------------------------------------
(* main and init_system as statement lists *)

St(op, x) == [op |-> op, x |-> x]

\* main, variant: the global solve is attempted before the system is initialized
MainBodySolveFirst ==
    << "build_system", "add_connections", "add_constraints",
       "set_operating_conditions", "solve", "init_system",
       "print_RO_report", "display_flow_table" >>

\* main: its statements in program order
MainBody ==
    << "build_system", "add_connections", "add_constraints",
       "set_operating_conditions", "init_system",
       "print_RO_report", "solve", "display_flow_table" >>

\* init_system, variant: the primary pump is initialized before the feed state reaches it
InitSystemBodyPumpEarly ==
    << St("get_solver", "solver"),
       St("print_dof", "m"),
       St("initialize", "feed"),
       St("initialize", "primary_pump"),
       St("propagate_state", "feed_to_primary_pump"),
       St("report", "report_MCAS_stream_conc"),
       St("propagate_state", "primary_pump_to_softener"),
       St("initialize", "softener"),
       St("propagate_state", "softener_to_translator"),
       St("initialize", "MCAS_to_NaCl_translator"),
       St("propagate_state", "translator_to_UF"),
       St("initialize", "UF"),
       St("propagate_state", "UF_to_ro_feed"),
       St("initialize", "RO"),
       St("propagate_state", "ro_to_product"),
       St("propagate_state", "ro_to_disposal"),
       St("initialize", "product"),
       St("initialize", "disposal"),
       St("assert_no_degrees_of_freedom", "m") >>

\* init_system, variant: the closing degrees-of-freedom assertion is missing
InitSystemBodyNoAssert ==
    << St("get_solver", "solver"),
       St("print_dof", "m"),
       St("initialize", "feed"),
       St("propagate_state", "feed_to_primary_pump"),
       St("report", "report_MCAS_stream_conc"),
       St("initialize", "primary_pump"),
       St("propagate_state", "primary_pump_to_softener"),
       St("initialize", "softener"),
       St("propagate_state", "softener_to_translator"),
       St("initialize", "MCAS_to_NaCl_translator"),
       St("propagate_state", "translator_to_UF"),
       St("initialize", "UF"),
       St("propagate_state", "UF_to_ro_feed"),
       St("initialize", "RO"),
       St("propagate_state", "ro_to_product"),
       St("propagate_state", "ro_to_disposal"),
       St("initialize", "product"),
       St("initialize", "disposal") >>

\* init_system: its statements in program order (solver is None in main's call)
InitSystemBody ==
    << St("get_solver", "solver"),
       St("print_dof", "m"),
       St("initialize", "feed"),
       St("propagate_state", "feed_to_primary_pump"),
       St("report", "report_MCAS_stream_conc"),
       St("initialize", "primary_pump"),
       St("propagate_state", "primary_pump_to_softener"),
       St("initialize", "softener"),
       St("propagate_state", "softener_to_translator"),
       St("initialize", "MCAS_to_NaCl_translator"),
       St("propagate_state", "translator_to_UF"),
       St("initialize", "UF"),
       St("propagate_state", "UF_to_ro_feed"),
       St("initialize", "RO"),
       St("propagate_state", "ro_to_product"),
       St("propagate_state", "ro_to_disposal"),
       St("initialize", "product"),
       St("initialize", "disposal"),
       St("assert_no_degrees_of_freedom", "m") >>

\* outcomes of a unit's local initialization solve
InitOutcomes == {"optimal", "failed"}

\* a local initialization that does not reach optimal termination raises
\* InitializationError out of the unit's initializer
LocalInitRaises(outcome) == outcome # "optimal"

\* main and init_system, variant: the exception is caught and the sequence goes on
InitFailurePropagatesSwallowed(raised) == FALSE

\* main and init_system hold no try/except: an exception raised by a unit's
\* initializer ends init_system and main
InitFailurePropagates(raised) == raised

----------------------------------------------------------------------------
(* solve *)

\* termination conditions the external solver can report
Terminations == {"optimal", "locallyOptimal", "infeasible", "maxIterations"}

\* pyomo's check_optimal_termination(results)
CheckOptimalTermination(term) == term \in {"optimal", "locallyOptimal"}

\* solve: what one call does, given the termination the solver reports
SolvePrefix(sarg) ==
    (IF sarg = "None" THEN << Ev("call", "get_solver") >> ELSE << >>)
        \o << Ev("print", "SOLVING"), Ev("solver", "solve") >>

\* solve, variant: a non-optimal termination is retried once
SolveRunRetry(term, rof, sarg) ==
    [ events |-> SolvePrefix(sarg) \o
                 (IF CheckOptimalTermination(term)
                    THEN << Ev("print", "OPTIMAL SOLVE") >>
                    ELSE << Ev("solver", "solve") >> \o
                         (IF rof
                            THEN << Ev("diagnostic", "print_infeasible_bounds"),
                                    Ev("diagnostic", "print_close_to_bounds"),
                                    Ev("raise", "RuntimeError") >>
                            ELSE << >>)),
      raised |-> ~CheckOptimalTermination(term) /\ rof,
      result |-> IF ~CheckOptimalTermination(term) /\ rof THEN "none" ELSE term ]

\* solve, variant: raise_on_failure is ignored and the non-optimal result is returned
SolveRunNeverRaises(term, rof, sarg) ==
    [ events |-> SolvePrefix(sarg) \o
                 (IF CheckOptimalTermination(term)
                    THEN << Ev("print", "OPTIMAL SOLVE") >>
                    ELSE IF rof
                      THEN << Ev("diagnostic", "print_infeasible_bounds"),
                              Ev("diagnostic", "print_close_to_bounds") >>
                      ELSE << >>),
      raised |-> FALSE,
      result |-> term ]

\* solve, variant: the diagnostics are printed whatever raise_on_failure is
SolveRunAlwaysDiagnoses(term, rof, sarg) ==
    [ events |-> SolvePrefix(sarg) \o
                 (IF CheckOptimalTermination(term)
                    THEN << Ev("print", "OPTIMAL SOLVE") >>
                    ELSE << Ev("diagnostic", "print_infeasible_bounds"),
                            Ev("diagnostic", "print_close_to_bounds") >> \o
                         (IF rof THEN << Ev("raise", "RuntimeError") >> ELSE << >>)),
      raised |-> ~CheckOptimalTermination(term) /\ rof,
      result |-> IF ~CheckOptimalTermination(term) /\ rof THEN "none" ELSE term ]

\* solve(model, solver, tee, raise_on_failure): events in program order, whether
\* it raised, and the value it returned
SolveRun(term, rof, sarg) ==
    [ events |-> SolvePrefix(sarg) \o
                 (IF CheckOptimalTermination(term)
                    THEN << Ev("print", "OPTIMAL SOLVE") >>
                    ELSE IF rof
                      THEN << Ev("diagnostic", "print_infeasible_bounds"),
                              Ev("diagnostic", "print_close_to_bounds"),
                              Ev("raise", "RuntimeError") >>
                      ELSE << >>),
      raised |-> ~CheckOptimalTermination(term) /\ rof,
      result |-> IF ~CheckOptimalTermination(term) /\ rof THEN "none" ELSE term ]


----------------------------------------------------------------------------
(* load_config and setup_model *)

\* an optional list argument, by its length: None, or Some(n) for a list of n items
None == {}
Some(n) == {n}
LenOf(opt) == CHOOSE n \in opt : TRUE
ListArgs == {None} \cup {Some(n) : n \in 0..MaxModules}

\* parameters the PySAM trough module knows (run_model reads and writes both)
KnownParams == {"q_pb_design", "tshours"}

\* keys a parameter dictionary may hold
Keys == KnownParams \cup {"number_inputs", "not_a_parameter"}

\* parameter values found in a dictionary
Values == {1, 2}

\* parameter dictionaries: items in insertion order, keys distinct
Dicts ==
    {d \in UNION {[1..n -> Keys \X Values] : n \in 0..MaxDictLen} :
        \A i, j \in 1..Len(d) : i # j => d[i][1] # d[j][1]}

\* modules[i].value(k, v) of the external module: raises for a name it does not know
ValueRaises(k) == k \notin KnownParams

\* one module after value(k, v) succeeded
SetValue(mod, k, v) == {p \in mod : p[1] # k} \cup {<<k, v>>}

RECURSIVE ApplyDataStopAtMissing(_, _)
\* load_config's inner loop, variant: the first rejected key ends the loop
ApplyDataStopAtMissing(st, data) ==
    IF data = << >> THEN st
    ELSE LET k == Head(data)[1]
             v == Head(data)[2]
         IN  IF k = "number_inputs" THEN ApplyDataStopAtMissing(st, Tail(data))
             ELSE IF ValueRaises(k)
               THEN [st EXCEPT !.calls = @ + 1, !.missing = Append(@, k)]
               ELSE ApplyDataStopAtMissing(
                        [st EXCEPT !.calls = @ + 1, !.mod = SetValue(@, k, v)],
                        Tail(data))

RECURSIVE ApplyData(_, _)
\* load_config's inner loop over data.items(): st = [mod, missing, calls]
ApplyData(st, data) ==
    IF data = << >> THEN st
    ELSE LET k == Head(data)[1]
             v == Head(data)[2]
         IN  IF k = "number_inputs" THEN ApplyData(st, Tail(data))
             ELSE IF ValueRaises(k)
               THEN ApplyData([st EXCEPT !.calls = @ + 1, !.missing = Append(@, k)],
                              Tail(data))
               ELSE ApplyData([st EXCEPT !.calls = @ + 1, !.mod = SetValue(@, k, v)],
                              Tail(data))

\* load_config, variant: the closing else is missing and module_data is used
DataSourceNoCheck(files, data, n) ==
    IF files # None
      THEN IF LenOf(files) = n THEN "file" ELSE "AssertionError"
      ELSE IF data # None
        THEN IF LenOf(data) = n THEN "data" ELSE "AssertionError"
        ELSE "data"

\* load_config: where one loop iteration takes its dictionary from, or the
\* exception it raises instead
DataSource(files, data, n) ==
    IF files # None
      THEN IF LenOf(files) = n THEN "file" ELSE "AssertionError"
      ELSE IF data # None
        THEN IF LenOf(data) = n THEN "data" ELSE "AssertionError"
        ELSE "Exception"


----------------------------------------------------------------------------
(* run_model *)

\* an optional scalar argument: its value when it is not None
ValueOf(opt) == CHOOSE n \in opt : TRUE

\* numpy.linspace(start, stop, num) for evenly dividing integer end points
Linspace(start, stop, num) ==
    IF num = 1 THEN << start >>
    ELSE [i \in 1..num |-> start + ((i - 1) * (stop - start)) \div (num - 1)]

\* heat_loads and hours_storages of the sweep, cut to the model's number of points
HeatLoads == Linspace(1, HeatLoadSteps, HeatLoadSteps)
HoursStorages == Linspace(0, StorageSteps - 1, StorageSteps)

\* floating-point values: a number, or NaN
F(v) == [nan |-> FALSE, v |-> v]
NaN == [nan |-> TRUE, v |-> 0]
\* math.isnan, variant: no value is recognised as NaN
IsNanNever(x) == FALSE

\* math.isnan
IsNan(x) == x.nan
FAdd(a, b) == IF a.nan \/ b.nan THEN NaN ELSE F(a.v + b.v)
FSub(a, b) == IF a.nan \/ b.nan THEN NaN ELSE F(a.v - b.v)

HoursPerYear == 8760
KwPerMw == 1000
Percent == 100

\* half a MW-year in kWh: the grain of the simulation's energy outputs
EnergyStep == (KwPerMw * HoursPerYear) \div 2

\* what tech_model.execute() leaves in tech_model.Outputs
SimOutputs ==
    [ annual_energy : {NaN} \cup {F(k * EnergyStep) : k \in 0..MaxEnergySteps},
      annual_field_freeze_protection : {NaN, F(0), F(EnergyStep)},
      annual_tes_freeze_protection : {NaN, F(0), F(EnergyStep)},
      annual_electricity_consumption : {F(0), F(EnergyStep)} ]

NoOutputs ==
    [ annual_energy |-> NaN, annual_field_freeze_protection |-> NaN,
      annual_tes_freeze_protection |-> NaN, annual_electricity_consumption |-> NaN ]

NoResult == [ returned |-> FALSE ]

\* x / (q * 1e3 * 8760) * 100 as an exact quotient: num / den * times
Quotient(x, q) == [nan |-> x.nan, num |-> x.v, den |-> q * KwPerMw * HoursPerYear,
                   times |-> Percent]

\* run_model(modules, heat_load, hours_storage), `out` being what execute() produced:
\* the module afterwards and the dictionary returned
RunModel(tm, hl, hs, out) ==
    LET q  == IF hl # None THEN ValueOf(hl) ELSE tm.q_pb_design
        ts == IF hs # None THEN ValueOf(hs) ELSE tm.tshours
        field == IF IsNan(out.annual_field_freeze_protection)
                   THEN F(0) ELSE out.annual_field_freeze_protection
        tes   == IF IsNan(out.annual_tes_freeze_protection)
                   THEN F(0) ELSE out.annual_tes_freeze_protection
        freeze == FAdd(field, tes)
        annual == FSub(out.annual_energy, freeze)
    IN  [ model |-> [q_pb_design |-> q, tshours |-> ts, outputs |-> out],
          result |-> [ returned |-> TRUE,
                       annual_energy |-> annual,
                       freeze_protection |-> freeze,
                       capacity_factor |-> Quotient(annual, q),
                       electrical_load |-> out.annual_electricity_consumption ] ]

----------------------------------------------------------------------------
(* The parametric sweep of the script's __main__ block *)

\* list(itertools.product(a, b)): every pair, the second axis varying fastest
ProductZip(a, b) ==
    [k \in 1..(IF Len(a) < Len(b) THEN Len(a) ELSE Len(b)) |-> << a[k], b[k] >>]

Product(a, b) ==
    [k \in 1..(Len(a) * Len(b)) |->
        << a[((k - 1) \div Len(b)) + 1], b[((k - 1) % Len(b)) + 1] >>]

\* `arguments`, over the model's axes and over the script's axes
Arguments == Product(HeatLoads, HoursStorages)
NumTasks == Len(Arguments)
FullArguments == Product(Linspace(1, 50, 50), Linspace(0, 24, 25))

\* pd.DataFrame(arguments, columns=["heat_load", "hours_storage"])
ArgumentFrame(args) ==
    [i \in 1..Len(args) |-> [heat_load |-> args[i][1], hours_storage |-> args[i][2]]]

\* config_data[0] after `del config_data[0]["file_name"]`
SweepConfigs == { << <<"q_pb_design", v>>, <<"tshours", v>> >> : v \in Values }

\* the module a set of assigned parameters stands for (0: never assigned)
ParamOr(mod, k, d) == IF \E p \in mod : p[1] = k
                        THEN (CHOOSE p \in mod : p[1] = k)[2] ELSE d
TechModelOf(mod) ==
    [q_pb_design |-> ParamOr(mod, "q_pb_design", 0),
     tshours |-> ParamOr(mod, "tshours", 0), outputs |-> NoOutputs]

\* tech_model.execute() inside the sweep: the simulation is a function of the
\* module's parameters
Execute(tm) ==
    [ annual_energy |-> F(tm.q_pb_design * EnergyStep),
      annual_field_freeze_protection |-> IF tm.tshours = 0 THEN NaN ELSE F(0),
      annual_tes_freeze_protection |-> F(0),
      annual_electricity_consumption |-> F(tm.tshours * KwPerMw) ]

\* setup_model's first statement, variant: one module-level instance is reused
NewInstanceShared(count) == 1

\* tech_model = iph.new(): the identity of the instance created
NewInstance(count) == count + 1

\* setup_model(model_name, weather_file=..., config_data=config): the module
\* after load_config
SetupModel(config) ==
    ApplyData([mod |-> {}, missing |-> << >>, calls |-> 0], config).mod

\* setup_and_run's run_model(modules, heat_load, hours_storage) on a module
SetupAndRunResult(mod, hl, hs) ==
    LET tm  == TechModelOf(mod)
        pre == RunModel(tm, Some(hl), Some(hs), NoOutputs).model
    IN  RunModel(tm, Some(hl), Some(hs), Execute(pre)).result

\* the columns of df after pd.concat, in order
DatasetColumns ==
    << "heat_load", "hours_storage", "annual_energy", "freeze_protection",
       "capacity_factor", "electrical_load" >>

\* the (x_index, y_index, z_index) of the script's three plot_3d calls
PlotCalls == << << 0, 1, 2 >>, << 0, 1, 4 >>, << 0, 1, 6 >> >>

\* df.columns[i] for a non-negative i: positions count from 0
HasColumn(cols, i) == i + 1 \in 1..Len(cols)

\* plot_3d(df, x_index, y_index, z_index): IndexError when a position is past
\* the last column, else the plot titled with the z column
Plot3d(cols, c) ==
    IF HasColumn(cols, c[1]) /\ HasColumn(cols, c[2]) /\ HasColumn(cols, c[3])
      THEN [raised |-> FALSE, title |-> cols[c[3] + 1]]
      ELSE [raised |-> TRUE, title |-> "none"]

\* pool.starmap(setup_and_run, arguments) with no chunksize given: the n
\* evaluations are cut into chunks of ceil(n / (4 * processes)) consecutive ones
ChunkSize(n, p) ==
    LET chunksize == n \div (4 * p)
        extra == n % (4 * p)
    IN  IF extra # 0 THEN chunksize + 1 ELSE chunksize

\* multiprocessing.Pool(processes=6)
Processes == 6

\* the chunk size and the number of chunks of the sweep the model runs
TaskChunk == ChunkSize(NumTasks, PoolSize)
NumChunks == (NumTasks + TaskChunk - 1) \div TaskChunk

\* the chunk an evaluation belongs to, and the first and last evaluation of a chunk
ChunkOf(t) == ((t - 1) \div TaskChunk) + 1
ChunkFirst(c) == (c - 1) * TaskChunk + 1
ChunkLast(c) == IF c * TaskChunk < NumTasks THEN c * TaskChunk ELSE NumTasks

\* the sets of evaluations whose execute() raises that the model runs: none,
\* one of the first chunk, the first one of the second chunk, or the first and
\* the last of all
RaisingSets == {{}} \cup {{t} : t \in 1..(TaskChunk + 1)} \cup {{1, NumTasks}}

\* pool.starmap, variant: it returns as soon as one evaluation has finished
StarmapReadyFirstDone(st) == \E t \in DOMAIN st : st[t] \in {"ok", "failed"}

\* pool.starmap blocks until every chunk has reported: each of its evaluations
\* returned, or one raised and the ones after it in the chunk were not run
StarmapReady(st) == \A t \in DOMAIN st : st[t] \in {"ok", "failed", "skipped"}

\* pd.concat, variant: the result rows are joined in reverse order
ConcatColumnsReversed(frame, res) ==
    [i \in 1..Len(frame) |->
        [ heat_load |-> frame[i].heat_load,
          hours_storage |-> frame[i].hours_storage,
          annual_energy |-> res[Len(frame) + 1 - i].annual_energy,
          freeze_protection |-> res[Len(frame) + 1 - i].freeze_protection,
          capacity_factor |-> res[Len(frame) + 1 - i].capacity_factor,
          electrical_load |-> res[Len(frame) + 1 - i].electrical_load ]]

\* pd.concat([df, df_results[[...]]], axis=1): rows joined on their index
ConcatColumns(frame, res) ==
    [i \in 1..Len(frame) |->
        [ heat_load |-> frame[i].heat_load,
          hours_storage |-> frame[i].hours_storage,
          annual_energy |-> res[i].annual_energy,
          freeze_protection |-> res[i].freeze_protection,
          capacity_factor |-> res[i].capacity_factor,
          electrical_load |-> res[i].electrical_load ]]

----------------------------------------------------------------------------
(* TroughSurrogate.initialize_build *)

HoursPerYearMean == 8766

TroughNames == {"fs.trough", "fs.energy.trough"}

\* values a scaling parameter of the unit and a scaled surrogate output take
ScalingValues == {1, 2}
SurrogateValues == {1, 2}

NoFrame == [heat_load |-> 0, hours_storage |-> 0]
NoSurrogateOutput == [heat_annual_scaled |-> 0, electricity_annual_scaled |-> 0]

\* the answers surrogate.evaluate_surrogate can give
SurrogateOutputs ==
    [heat_annual_scaled : SurrogateValues, electricity_annual_scaled : SurrogateValues]

\* the Expressions heat_annual and electricity_annual of build
HeatAnnual(u) == Frac(u.heat_annual_scaled, u.heat_annual_scaling)
ElectricityAnnual(u) == Frac(u.electricity_annual_scaled, u.electricity_annual_scaling)

\* value(x) / 8766
PerHour(x) == Frac(x.num, x.den * HoursPerYearMean)

\* initialize_build, variant: heat and electricity are set before the surrogate's
\* outputs are written
InitializeBuildBodyRatesFirst ==
    << St("frame", "data"),
       St("evaluate", "surrogate.evaluate_surrogate"),
       St("set", "heat"),
       St("set", "electricity"),
       St("set", "heat_annual_scaled"),
       St("set", "electricity_annual_scaled"),
       St("solve", "opt.solve"),
       St("check", "check_optimal_termination"),
       St("complete", "init_log.info") >>

\* initialize_build: its statements in program order
InitializeBuildBody ==
    << St("frame", "data"),
       St("evaluate", "surrogate.evaluate_surrogate"),
       St("set", "heat_annual_scaled"),
       St("set", "electricity_annual_scaled"),
       St("set", "heat"),
       St("set", "electricity"),
       St("solve", "opt.solve"),
       St("check", "check_optimal_termination"),
       St("complete", "init_log.info") >>

\* the unit after one set_value statement of initialize_build
SetTroughValue(u, out, x) ==
    CASE x = "heat_annual_scaled" ->
            [u EXCEPT !.heat_annual_scaled = out.heat_annual_scaled]
      [] x = "electricity_annual_scaled" ->
            [u EXCEPT !.electricity_annual_scaled = out.electricity_annual_scaled]
      [] x = "heat" -> [u EXCEPT !.heat = PerHour(HeatAnnual(u))]
      [] x = "electricity" -> [u EXCEPT !.electricity = PerHour(ElectricityAnnual(u))]

\* f"Unit model {self.name} failed to initialize"
InitFailureMessage(name) == << "Unit model ", name, " failed to initialize" >>

----------------------------------------------------------------------------
(* TroughSurrogate.calculate_scaling_factors *)

\* a scaling factor that is set, and the absence of one (get_scaling_factor
\* returns None)
Factor(f) == [set |-> TRUE, sf |-> f]
NoFactor == [set |-> FALSE, sf |-> Frac(0, 1)]

\* the components calculate_scaling_factors looks at, with the default of each,
\* in program order
ScalingDefaults ==
    << << "hours_storage", Frac(1, 1) >>,
       << "heat_load", Frac(1, 1000) >>,
       << "heat_annual_scaled", Frac(1, 1) >>,
       << "heat", Frac(1, 10000) >>,
       << "electricity_annual_scaled", Frac(1, 1) >>,
       << "electricity", Frac(1, 1000) >>,
       << "total_aperture_area", Frac(1, 1000000) >>,
       << "land_area", Frac(1, 10) >> >>

ScaledComponents == {ScalingDefaults[i][1] : i \in 1..Len(ScalingDefaults)}

\* a factor a user set with iscale.set_scaling_factor before the call
UserFactor == Frac(5, 1)

\* one `if get_scaling_factor(v) is None` block, variant: the default is always
\* assigned
ApplyDefaultAlways(sfm, x, d) == [sfm EXCEPT ![x] = Factor(d)]

\* one `if iscale.get_scaling_factor(v) is None: ... set_scaling_factor(v, sf)`
\* block
ApplyDefault(sfm, x, d) ==
    IF ~sfm[x].set THEN [sfm EXCEPT ![x] = Factor(d)] ELSE sfm

RECURSIVE ApplyDefaults(_, _)
\* the blocks of a list of defaults, one after the other
ApplyDefaults(sfm, defaults) ==
    IF defaults = << >> THEN sfm
    ELSE ApplyDefaults(ApplyDefault(sfm, Head(defaults)[1], Head(defaults)[2]),
                       Tail(defaults))

\* calculate_scaling_factors(self)
CalculateScalingFactors(sfm) == ApplyDefaults(sfm, ScalingDefaults)

----------------------------------------------------------------------------
(* Initial states: one per entry point and argument choice *)

MainIdle ==
    /\ mainIp = 1 /\ initIp = 0
    /\ arcs = {} /\ expandCount = 0 /\ sysVars = {} /\ fixed = {}
    /\ initialized = {} /\ propagated = {}

ConfigIdle ==
    /\ nMods = 0 /\ fileNames = None /\ moduleData = None /\ lcI = 0
    /\ mods = << >> /\ valueCalls = 0 /\ missing = << >> /\ lastData = << >>
    /\ weather = "none" /\ retModel = FALSE

SweepIdle ==
    /\ swPc = "idle" /\ swConfig = << >> /\ df = << >> /\ raising = {} /\ nextChunk = 0
    /\ workers = {} /\ instCount = 0 /\ taskSt = << >> /\ instances = {}
    /\ taskResult = << >> /\ outOfOrder = FALSE
    /\ results = << >> /\ pickled = << >> /\ plots = << >>

NoInletArgs == [Qin |-> {}, water_recovery |-> {}, primary_pump_pressure |-> 2000000]

InletIdle ==
    /\ inletArgs = NoInletArgs /\ fixedVal = << >> /\ scaling = NoScaling

SfIdle ==
    /\ sfCalls = 0 /\ trSf = << >> /\ trSfInit = << >> /\ trSfOnce = << >>

TroughIdle ==
    /\ SfIdle
    /\ trIp = 0
    /\ trough = [name |-> "none"]
    /\ trData = NoFrame /\ trOut = NoSurrogateOutput
    /\ trRes = "none" /\ trMsg = << >>

RunIdle ==
    /\ techModel = [q_pb_design |-> 1, tshours |-> 0, outputs |-> NoOutputs]
    /\ heatLoadArg = None /\ hoursStorageArg = None
    /\ runResult = NoResult

Common ==
    /\ status = "running" /\ error = "none" /\ log = << >>
    /\ solverCalls = 0 /\ termination = "none" /\ result = "none"

\* python main.py: main() calls solve(m) with its defaults
InitMain ==
    /\ entry = "main" /\ Common /\ MainIdle /\ ConfigIdle /\ RunIdle /\ SweepIdle /\ InletIdle /\ TroughIdle
    /\ dof \in 0..MaxDof
    /\ solverArg = "None" /\ raiseOnFailure = TRUE

\* a caller invokes solve(model, solver, tee, raise_on_failure) on its own model
InitSolve ==
    /\ entry = "solve" /\ Common /\ MainIdle /\ ConfigIdle /\ RunIdle /\ SweepIdle /\ InletIdle /\ TroughIdle
    /\ dof \in 0..MaxDof
    /\ solverArg \in {"None", "given"} /\ raiseOnFailure \in BOOLEAN

\* a caller invokes load_config(modules, file_names, module_data)
InitLoadConfig ==
    /\ entry = "load_config" /\ Common /\ MainIdle /\ RunIdle /\ SweepIdle /\ InletIdle /\ TroughIdle
    /\ dof = 0 /\ solverArg = "None" /\ raiseOnFailure = TRUE
    /\ nMods \in 0..MaxModules
    /\ fileNames \in ListArgs
    /\ moduleData \in (IF fileNames = None THEN ListArgs ELSE {None, Some(nMods)})
    /\ lcI = 1
    /\ mods = [i \in 1..nMods |-> {}]
    /\ valueCalls = 0 /\ missing = << >> /\ lastData = << >>
    /\ weather = "none" /\ retModel = FALSE

\* a caller invokes setup_model(model_name, weather_file, weather_data,
\* config_files, config_data)
InitSetupModel ==
    /\ entry = "setup_model" /\ Common /\ MainIdle /\ RunIdle /\ SweepIdle /\ InletIdle /\ TroughIdle
    /\ dof = 0 /\ solverArg = "None" /\ raiseOnFailure = TRUE
    /\ nMods = 0
    /\ fileNames \in ListArgs
    /\ moduleData \in (IF fileNames = None THEN ListArgs ELSE {None, Some(1)})
    /\ lcI = 0
    /\ mods = << >>
    /\ valueCalls = 0 /\ missing = << >> /\ lastData = << >>
    /\ weather \in {"file", "data", "both", "none"} /\ retModel = FALSE

\* a caller invokes run_model(modules, heat_load, hours_storage) on a module
\* that setup_model returned
InitRunModel ==
    /\ entry = "run_model" /\ Common /\ MainIdle /\ ConfigIdle /\ SweepIdle /\ InletIdle /\ TroughIdle
    /\ dof = 0 /\ solverArg = "None" /\ raiseOnFailure = TRUE
    /\ techModel \in [ q_pb_design : {HeatLoads[i] : i \in 1..Len(HeatLoads)},
                        tshours : {HoursStorages[i] : i \in 1..Len(HoursStorages)},
                        outputs : {NoOutputs} ]
    /\ heatLoadArg \in {None} \cup {Some(HeatLoads[i]) : i \in 1..Len(HeatLoads)}
    /\ hoursStorageArg \in {None} \cup {Some(HoursStorages[i]) : i \in 1..Len(HoursStorages)}
    /\ runResult = NoResult

\* python pysam_run_permian_trough.py: the script's __main__ block
InitSweep ==
    /\ entry = "sweep" /\ Common /\ MainIdle /\ ConfigIdle /\ RunIdle /\ InletIdle /\ TroughIdle
    /\ dof = 0 /\ solverArg = "None" /\ raiseOnFailure = TRUE
    /\ swPc = "start" /\ swConfig \in SweepConfigs /\ df = << >>
    /\ raising \in RaisingSets
    /\ nextChunk = 1
    /\ workers = {}
    /\ instCount = 0
    /\ taskSt = [t \in 1..NumTasks |-> "pending"]
    /\ instances = {}
    /\ taskResult = [t \in 1..NumTasks |-> NoResult]
    /\ outOfOrder = FALSE
    /\ results = << >> /\ pickled = << >> /\ plots = << >>

\* a caller invokes set_inlet_conditions(m, Qin, Cin, water_recovery,
\* primary_pump_pressure) on a model that build_system, add_connections and
\* add_constraints have assembled
InitSetInletConditions ==
    /\ entry = "set_inlet_conditions" /\ Common /\ ConfigIdle /\ RunIdle /\ SweepIdle
    /\ TroughIdle
    /\ dof = 0 /\ solverArg = "None" /\ raiseOnFailure = TRUE
    /\ mainIp = 1 /\ initIp = 0
    /\ arcs = ArcNames /\ expandCount = 1
    /\ sysVars = {AddConstraintsBody[i].x : i \in Idx(AddConstraintsBody, "declare")}
    /\ fixed = {} /\ initialized = {} /\ propagated = {}
    /\ inletArgs \in [ Qin : {{}} \cup {{q} : q \in 1..MaxQin},
                        water_recovery : {{}, {50}},
                        primary_pump_pressure : {2000000, 3000000} ]
    /\ fixedVal = << >>
    /\ scaling \in {BuildDefaultScaling(k) : k \in CalcScaleValues}

\* a caller invokes initialize_build on a built TroughSurrogate unit
InitInitializeBuild ==
    /\ entry = "initialize_build" /\ Common /\ MainIdle /\ ConfigIdle /\ RunIdle
    /\ SweepIdle /\ InletIdle /\ SfIdle
    /\ dof = 0 /\ solverArg = "None" /\ raiseOnFailure = TRUE
    /\ trIp = 1
    /\ trough \in [ name : TroughNames,
                     heat_load : {HeatLoads[i] : i \in 1..Len(HeatLoads)},
                     hours_storage : {HoursStorages[i] : i \in 1..Len(HoursStorages)},
                     heat_annual_scaling : ScalingValues,
                     electricity_annual_scaling : ScalingValues,
                     heat_annual_scaled : {0}, electricity_annual_scaled : {0},
                     heat : {Frac(0, 1)}, electricity : {Frac(0, 1)} ]
    /\ trData = NoFrame /\ trOut = NoSurrogateOutput
    /\ trRes = "none" /\ trMsg = << >>

\* a caller invokes calculate_scaling_factors on a built TroughSurrogate unit,
\* some of whose components already have a scaling factor
InitCalculateScalingFactors ==
    /\ entry = "calculate_scaling_factors" /\ Common /\ MainIdle /\ ConfigIdle
    /\ RunIdle /\ SweepIdle /\ InletIdle
    /\ dof = 0 /\ solverArg = "None" /\ raiseOnFailure = TRUE
    /\ trIp = 0 /\ trough = [name |-> "none"]
    /\ trData = NoFrame /\ trOut = NoSurrogateOutput
    /\ trRes = "none" /\ trMsg = << >>
    /\ sfCalls = 0
    /\ trSf \in [ScaledComponents -> {NoFactor, Factor(UserFactor)}]
    /\ trSfInit = trSf
    /\ trSfOnce = << >>

Init == InitMain \/ InitSolve \/ InitLoadConfig \/ InitSetupModel \/ InitRunModel
        \/ InitSweep \/ InitSetInletConditions \/ InitInitializeBuild
        \/ InitCalculateScalingFactors

----------------------------------------------------------------------------
(* main *)

AtMain(stmt) ==
    /\ entry = "main" /\ status = "running"
    /\ mainIp \in 1..Len(MainBody)
    /\ MainBody[mainIp] = stmt

MainNext ==
    /\ mainIp' = mainIp + 1
    /\ UNCHANGED << entry, status, error >>

Raise(e) ==
    /\ status' = "raised"
    /\ error' = e

\* m = build_system()
BuildSystem ==
    /\ AtMain("build_system")
    /\ log' = Append(log, Ev("call", "build_system"))
    /\ \E scale_flow \in CalcScaleValues : scaling' = BuildDefaultScaling(scale_flow)
    /\ MainNext
    /\ UNCHANGED << initIp, arcs, expandCount, sysVars, fixed, dof, initialized,
                    propagated, solveVars, solveArgs, configVars >>
    /\ UNCHANGED << runVars, sweepVars, inletArgs, fixedVal, troughVars, sfVars >>

\* add_connections(m)
AddConnections ==
    /\ AtMain("add_connections")
    /\ log' = log \o << Ev("call", "add_connections") >> \o AddConnectionsBody
    /\ arcs' = arcs \cup {AddConnectionsBody[i].x : i \in Idx(AddConnectionsBody, "arc")}
    /\ expandCount' = expandCount + Cardinality(Idx(AddConnectionsBody, "expand_arcs"))
    /\ MainNext
    /\ UNCHANGED << initIp, sysVars, fixed, dof, initialized, propagated,
                    solveVars, solveArgs, configVars >>
    /\ UNCHANGED restVars

\* add_constraints(m)
AddConstraints ==
    /\ AtMain("add_constraints")
    /\ log' = log \o << Ev("call", "add_constraints") >> \o AddConstraintsBody
    /\ sysVars' = sysVars \cup {AddConstraintsBody[i].x : i \in Idx(AddConstraintsBody, "declare")}
    /\ MainNext
    /\ UNCHANGED << initIp, arcs, expandCount, fixed, dof, initialized, propagated,
                    solveVars, solveArgs, configVars >>
    /\ UNCHANGED restVars

\* set_operating_conditions(m)
SetOperatingConditions ==
    /\ AtMain("set_operating_conditions")
    /\ log' = log \o << Ev("call", "set_operating_conditions") >> \o SetOperatingConditionsBody
    /\ inletArgs' = MainInletArgs
    /\ fixedVal' = SetInletConditions(MainInletArgs, scaling).fixedVal
    /\ scaling' = SetInletConditions(MainInletArgs, scaling).scaling
    /\ fixed' = fixed \cup DOMAIN fixedVal'
    /\ MainNext
    /\ UNCHANGED << initIp, arcs, expandCount, sysVars, dof, initialized, propagated,
                    solveVars, solveArgs, configVars >>
    /\ UNCHANGED << runVars, sweepVars, troughVars, sfVars >>

\* init_system(m) is entered
InitSystemEnter ==
    /\ AtMain("init_system") /\ initIp = 0
    /\ log' = Append(log, Ev("call", "init_system"))
    /\ initIp' = 1
    /\ UNCHANGED << entry, status, error, mainIp, arcs, expandCount, sysVars, fixed,
                    dof, initialized, propagated, solveVars, solveArgs, configVars >>
    /\ UNCHANGED restVars

\* one statement of init_system
InitSystemStep ==
    /\ AtMain("init_system") /\ initIp \in 1..Len(InitSystemBody)
    /\ LET s == InitSystemBody[initIp] IN
       \/ /\ s.op \in {"get_solver", "print_dof", "report"}
          /\ log' = Append(log, Ev(s.op, s.x))
          /\ initIp' = initIp + 1
          /\ UNCHANGED << status, error, initialized, propagated >>
       \/ /\ s.op = "propagate_state"
          /\ log' = Append(log, Ev("propagate_state", s.x))
          /\ propagated' = propagated \cup {s.x}
          /\ initIp' = initIp + 1
          /\ UNCHANGED << status, error, initialized >>
       \/ /\ s.op = "initialize"
          /\ log' = Append(log, Ev("initialize", s.x))
          /\ \E outcome \in InitOutcomes :
                IF InitFailurePropagates(LocalInitRaises(outcome))
                  THEN /\ Raise("InitializationError")
                       /\ UNCHANGED << initIp, initialized >>
                  ELSE /\ initialized' = IF outcome = "optimal"
                                           THEN initialized \cup {s.x}
                                           ELSE initialized
                       /\ initIp' = initIp + 1
                       /\ UNCHANGED << status, error >>
          /\ UNCHANGED propagated
       \/ /\ s.op = "assert_no_degrees_of_freedom"
          /\ log' = Append(log, Ev("assert_no_degrees_of_freedom", s.x))
          /\ IF dof # 0
               THEN /\ Raise("InitializationError")
                    /\ UNCHANGED initIp
               ELSE /\ initIp' = initIp + 1
                    /\ UNCHANGED << status, error >>
          /\ UNCHANGED << initialized, propagated >>
    /\ UNCHANGED << entry, mainIp, arcs, expandCount, sysVars, fixed, dof,
                    solveVars, solveArgs, configVars >>
    /\ UNCHANGED restVars

\* init_system returns to main
InitSystemReturn ==
    /\ AtMain("init_system") /\ initIp = Len(InitSystemBody) + 1
    /\ log' = Append(log, Ev("return", "init_system"))
    /\ MainNext
    /\ UNCHANGED << initIp, arcs, expandCount, sysVars, fixed, dof, initialized,
                    propagated, solveVars, solveArgs, configVars >>
    /\ UNCHANGED restVars

\* print(m.fs.RO.stage[1].module.report())
PrintROReport ==
    /\ AtMain("print_RO_report")
    /\ log' = Append(log, Ev("report", "RO.stage[1].module.report"))
    /\ MainNext
    /\ UNCHANGED << initIp, arcs, expandCount, sysVars, fixed, dof, initialized,
                    propagated, solveVars, solveArgs, configVars >>
    /\ UNCHANGED restVars

\* one call of solve with the arguments of this run
DoSolve ==
    \E term \in Terminations :
        LET r == SolveRun(term, raiseOnFailure, solverArg) IN
        /\ log' = log \o << Ev("call", "solve") >> \o r.events
        /\ solverCalls' = solverCalls + Cardinality(Idx(r.events, "solver"))
        /\ termination' = term
        /\ result' = r.result
        /\ IF r.raised
             THEN Raise("RuntimeError") /\ UNCHANGED mainIp
             ELSE IF entry = "main"
               THEN mainIp' = mainIp + 1 /\ UNCHANGED << status, error >>
               ELSE status' = "returned" /\ UNCHANGED << error, mainIp >>
        /\ UNCHANGED << entry, initIp, arcs, expandCount, sysVars, fixed, dof,
                        initialized, propagated, solveArgs, configVars >>
        /\ UNCHANGED restVars

\* solve(m) in main
SolveFromMain == AtMain("solve") /\ DoSolve

\* solve called on its own
SolveDirect == entry = "solve" /\ status = "running" /\ DoSolve

\* display_flow_table(m.fs.RO)
DisplayFlowTable ==
    /\ AtMain("display_flow_table")
    /\ log' = Append(log, Ev("report", "display_flow_table"))
    /\ MainNext
    /\ UNCHANGED << initIp, arcs, expandCount, sysVars, fixed, dof, initialized,
                    propagated, solveVars, solveArgs, configVars >>
    /\ UNCHANGED restVars

\* main returns
MainReturn ==
    /\ entry = "main" /\ status = "running" /\ mainIp = Len(MainBody) + 1
    /\ status' = "returned"
    /\ UNCHANGED << entry, error, log, mainVars, solveVars, solveArgs, configVars >>
    /\ UNCHANGED restVars


----------------------------------------------------------------------------
(* load_config and setup_model: actions *)

InConfig == entry \in {"load_config", "setup_model"} /\ status = "running"

\* setup_model: tech_model = iph.new(); modules = [tech_model]; load_config is called
SetupModelNew ==
    /\ entry = "setup_model" /\ status = "running" /\ lcI = 0
    /\ log' = log \o << Ev("call", "iph.new"), Ev("call", "load_config") >>
    /\ nMods' = 1
    /\ mods' = << {} >>
    /\ lcI' = 1
    /\ UNCHANGED << entry, status, error, mainVars, solveVars, solveArgs,
                    fileNames, moduleData, valueCalls, missing, lastData, weather,
                    retModel >>
    /\ UNCHANGED restVars

\* load_config: one iteration of `for i in range(len(modules))`
LoadConfigIter ==
    /\ InConfig /\ lcI \in 1..nMods
    /\ LET src == DataSource(fileNames, moduleData, nMods) IN
       \/ /\ src \in {"AssertionError", "Exception"}
          /\ Raise(src)
          /\ log' = Append(log, Ev("raise", src))
          /\ UNCHANGED << lcI, mods, valueCalls, missing, lastData >>
       \/ /\ src \in {"file", "data"}
          /\ \E data \in Dicts :
                LET st == ApplyData([mod |-> mods[lcI], missing |-> << >>, calls |-> 0],
                                    data)
                IN  /\ mods' = [mods EXCEPT ![lcI] = st.mod]
                    /\ missing' = st.missing
                    /\ valueCalls' = st.calls
                    /\ lastData' = data
                    /\ log' = Append(log, Ev("load", src))
          /\ lcI' = lcI + 1
          /\ UNCHANGED << status, error >>
    /\ UNCHANGED << entry, mainVars, solveVars, solveArgs, nMods, fileNames,
                    moduleData, weather, retModel >>
    /\ UNCHANGED restVars

\* load_config returns None to its caller
LoadConfigReturn ==
    /\ entry = "load_config" /\ status = "running" /\ lcI = nMods + 1
    /\ status' = "returned"
    /\ UNCHANGED << entry, error, log, mainVars, solveVars, solveArgs, configVars >>
    /\ UNCHANGED restVars

\* setup_model after load_config returned: the weather source, then the return
SetupModelWeather ==
    /\ entry = "setup_model" /\ status = "running" /\ lcI = nMods + 1
    /\ IF weather \in {"file", "both"}
         THEN /\ log' = Append(log, Ev("set", "Weather.file_name"))
              /\ status' = "returned" /\ retModel' = TRUE /\ UNCHANGED error
         ELSE IF weather = "data"
           THEN /\ log' = Append(log, Ev("set", "Weather.solar_resource_data"))
                /\ status' = "returned" /\ retModel' = TRUE /\ UNCHANGED error
           ELSE /\ log' = Append(log, Ev("raise", "Exception"))
                /\ Raise("Exception") /\ UNCHANGED retModel
    /\ UNCHANGED << entry, mainVars, solveVars, solveArgs, nMods, fileNames,
                    moduleData, lcI, mods, valueCalls, missing, lastData, weather >>
    /\ UNCHANGED restVars

----------------------------------------------------------------------------
(* run_model: action *)

\* one call of run_model; the simulation's outputs are the external model's
RunModelCall ==
    /\ entry = "run_model" /\ status = "running"
    /\ \E out \in SimOutputs :
          LET r == RunModel(techModel, heatLoadArg, hoursStorageArg, out) IN
          /\ techModel' = r.model
          /\ runResult' = r.result
    /\ log' = Append(log, Ev("call", "tech_model.execute"))
    /\ status' = "returned"
    /\ UNCHANGED << entry, error, mainVars, solveVars, solveArgs, configVars,
                    heatLoadArg, hoursStorageArg, sweepVars, inletVars, troughVars,
                    sfVars >>

----------------------------------------------------------------------------
(* The sweep: actions *)

InSweep == entry = "sweep" /\ status = "running"

otherVars == << entry, mainVars, solveVars, solveArgs, configVars, runVars, inletVars,
               troughVars, sfVars >>

\* arguments and df are built, the pool is created and the evaluations submitted
SweepSubmit ==
    /\ InSweep /\ swPc = "start"
    /\ df' = ArgumentFrame(Arguments)
    /\ swPc' = "pool"
    /\ log' = Append(log, Ev("call", "pool.starmap"))
    /\ UNCHANGED << status, error, swConfig, poolVars, results, pickled, plots,
                    otherVars >>

\* an idle worker takes the next chunk from the pool's task queue: it is at the
\* chunk's first evaluation, which it has not started yet
ChunkTake ==
    /\ InSweep /\ swPc = "pool"
    /\ Cardinality(workers) < PoolSize /\ nextChunk <= NumChunks
    /\ workers' = workers \cup {[task |-> ChunkFirst(nextChunk), inst |-> 0, mod |-> {}]}
    /\ nextChunk' = nextChunk + 1
    /\ UNCHANGED << status, error, log, swPc, swConfig, df, raising, instCount, taskSt,
                    instances, taskResult, outOfOrder, results, pickled, plots,
                    otherVars >>

\* a worker starts the evaluation it is at, the first one of the chunk it took
\* or the next one of the chunk it holds: setup_and_run calls setup_model
TaskStart ==
    /\ InSweep /\ swPc = "pool"
    /\ LET id == NewInstance(instCount) IN
       /\ \E w \in workers :
             /\ taskSt[w.task] = "pending"
             /\ workers' = (workers \ {w}) \cup
                               {[task |-> w.task, inst |-> id, mod |-> SetupModel(swConfig)]}
             /\ taskSt' = [taskSt EXCEPT ![w.task] = "running"]
       /\ instances' = instances \cup {id}
    /\ instCount' = instCount + 1
    /\ UNCHANGED << status, error, log, swPc, swConfig, df, raising, nextChunk,
                    taskResult, outOfOrder, results, pickled, plots, otherVars >>

\* a worker's run_model call ends. It returns its dictionary: the worker is at
\* the next evaluation of its chunk, or idle after the last one. Or execute()
\* raises: the rest of the chunk is not run and the worker is idle
TaskFinish ==
    /\ InSweep /\ swPc = "pool"
    /\ \E w \in workers :
          LET t == w.task
              last == ChunkLast(ChunkOf(t))
          IN
          /\ taskSt[t] = "running"
          /\ IF t \in raising
               THEN /\ taskSt' = [u \in 1..NumTasks |->
                                    IF u = t THEN "failed"
                                    ELSE IF u > t /\ u <= last THEN "skipped"
                                    ELSE taskSt[u]]
                    /\ workers' = workers \ {w}
                    /\ UNCHANGED taskResult
               ELSE /\ taskResult' = [taskResult EXCEPT ![t] =
                          SetupAndRunResult(w.mod, Arguments[t][1], Arguments[t][2])]
                    /\ taskSt' = [taskSt EXCEPT ![t] = "ok"]
                    /\ workers' = (workers \ {w}) \cup
                                      (IF t < last
                                         THEN {[task |-> t + 1, inst |-> 0, mod |-> {}]}
                                         ELSE {})
          /\ outOfOrder' = (outOfOrder
                              \/ \E u \in 1..(t - 1) : taskSt[u] \in {"pending", "running"})
    /\ UNCHANGED << status, error, log, swPc, swConfig, df, raising, nextChunk, instCount,
                    instances, results, pickled, plots, otherVars >>

\* pool.starmap returns the list of results in argument order, or re-raises the
\* exception of a failed evaluation
SweepGather ==
    /\ InSweep /\ swPc = "pool" /\ StarmapReady(taskSt)
    /\ \/ /\ \E t \in 1..NumTasks : taskSt[t] = "failed"
          /\ status' = "raised" /\ error' = "Exception"
          /\ log' = Append(log, Ev("raise", "Exception"))
          /\ UNCHANGED << swPc, results >>
       \/ /\ \A t \in 1..NumTasks : taskSt[t] # "failed"
          /\ results' = taskResult
          /\ swPc' = "gathered"
          /\ log' = Append(log, Ev("return", "pool.starmap"))
          /\ UNCHANGED << status, error >>
    /\ UNCHANGED << swConfig, df, poolVars, pickled, plots, otherVars >>

\* df_results, pd.concat(axis=1) and df.to_pickle
SweepWrite ==
    /\ InSweep /\ swPc = "gathered"
    /\ df' = ConcatColumns(df, results)
    /\ pickled' = df'
    /\ swPc' = "written"
    /\ log' = Append(log, Ev("call", "df.to_pickle"))
    /\ UNCHANGED << status, error, swConfig, poolVars, results, plots, otherVars >>

\* the next plot_3d(df, x_index, y_index, z_index) call of the script; after
\* the last one the script ends
SweepPlot ==
    /\ InSweep /\ swPc = "written" /\ Len(plots) < Len(PlotCalls)
    /\ LET r == Plot3d(DatasetColumns, PlotCalls[Len(plots) + 1]) IN
       IF r.raised
         THEN /\ status' = "raised" /\ error' = "IndexError"
              /\ log' = Append(log, Ev("raise", "IndexError"))
              /\ UNCHANGED plots
         ELSE /\ plots' = Append(plots, r.title)
              /\ log' = Append(log, Ev("plot", r.title))
              /\ status' = IF Len(plots') = Len(PlotCalls) THEN "returned" ELSE status
              /\ UNCHANGED error
    /\ UNCHANGED << swPc, swConfig, df, poolVars, results, pickled, otherVars >>

----------------------------------------------------------------------------
(* set_inlet_conditions called on its own *)

SetInletConditionsCall ==
    /\ entry = "set_inlet_conditions" /\ status = "running"
    /\ fixedVal' = SetInletConditions(inletArgs, scaling).fixedVal
    /\ scaling' = SetInletConditions(inletArgs, scaling).scaling
    /\ fixed' = fixed \cup DOMAIN fixedVal'
    /\ log' = log \o SetInletConditionsBody
    /\ status' = "returned"
    /\ UNCHANGED << entry, error, mainIp, initIp, arcs, expandCount, sysVars, dof,
                    initialized, propagated, solveVars, solveArgs, configVars,
                    runVars, sweepVars, inletArgs, troughVars, sfVars >>

----------------------------------------------------------------------------
(* TroughSurrogate.initialize_build: one statement per step *)

AtTrough(op) ==
    /\ entry = "initialize_build" /\ status = "running"
    /\ trIp \in 1..Len(InitializeBuildBody)
    /\ InitializeBuildBody[trIp].op = op

troughRest == << entry, mainVars, solveVars, solveArgs, configVars, runVars, sweepVars,
                inletVars, sfVars >>

\* data = pd.DataFrame({"heat_load": [...], "hours_storage": [...]})
TroughFrame ==
    /\ AtTrough("frame")
    /\ trData' = [heat_load |-> trough.heat_load, hours_storage |-> trough.hours_storage]
    /\ trIp' = trIp + 1
    /\ UNCHANGED << status, error, log, trough, trOut, trRes, trMsg, troughRest >>

\* init_output = self.surrogate.evaluate_surrogate(data)
TroughEvaluate ==
    /\ AtTrough("evaluate")
    /\ trOut' \in SurrogateOutputs
    /\ log' = Append(log, Ev("call", InitializeBuildBody[trIp].x))
    /\ trIp' = trIp + 1
    /\ UNCHANGED << status, error, trough, trData, trRes, trMsg, troughRest >>

\* one of the four set_value statements
TroughSet ==
    /\ AtTrough("set")
    /\ trough' = SetTroughValue(trough, trOut, InitializeBuildBody[trIp].x)
    /\ log' = Append(log, Ev("set", InitializeBuildBody[trIp].x))
    /\ trIp' = trIp + 1
    /\ UNCHANGED << status, error, trData, trOut, trRes, trMsg, troughRest >>

\* res = opt.solve(self, tee=slc.tee)
TroughSolve ==
    /\ AtTrough("solve")
    /\ trRes' \in Terminations
    /\ log' = Append(log, Ev("call", InitializeBuildBody[trIp].x))
    /\ trIp' = trIp + 1
    /\ UNCHANGED << status, error, trough, trData, trOut, trMsg, troughRest >>

\* if not check_optimal_termination(res): raise InitializationError(...)
TroughCheck ==
    /\ AtTrough("check")
    /\ IF CheckOptimalTermination(trRes)
         THEN /\ trIp' = trIp + 1
              /\ UNCHANGED << status, error, log, trMsg >>
         ELSE /\ status' = "raised" /\ error' = "InitializationError"
              /\ trMsg' = InitFailureMessage(trough.name)
              /\ log' = Append(log, Ev("raise", "InitializationError"))
              /\ UNCHANGED trIp
    /\ UNCHANGED << trough, trData, trOut, trRes, troughRest >>

\* init_log.info("Initialization Complete: ..."), then the return
TroughComplete ==
    /\ AtTrough("complete")
    /\ log' = Append(log, Ev("print", "Initialization Complete"))
    /\ status' = "returned"
    /\ trIp' = trIp + 1
    /\ UNCHANGED << error, trough, trData, trOut, trRes, trMsg, troughRest >>

----------------------------------------------------------------------------
(* TroughSurrogate.calculate_scaling_factors: one call *)

CalculateScalingFactorsCall ==
    /\ entry = "calculate_scaling_factors" /\ status = "running"
    /\ sfCalls < MaxSfCalls
    /\ trSf' = CalculateScalingFactors(trSf)
    /\ sfCalls' = sfCalls + 1
    /\ trSfOnce' = IF sfCalls = 0 THEN trSf' ELSE trSfOnce
    /\ log' = Append(log, Ev("call", "calculate_scaling_factors"))
    /\ UNCHANGED << entry, status, error, mainVars, solveVars, solveArgs, configVars,
                    runVars, sweepVars, inletVars, troughVars, trSfInit >>

----------------------------------------------------------------------------

Next ==
    \/ BuildSystem
    \/ AddConnections
    \/ AddConstraints
    \/ SetOperatingConditions
    \/ InitSystemEnter
    \/ InitSystemStep
    \/ InitSystemReturn
    \/ PrintROReport
    \/ SolveFromMain
    \/ SolveDirect
    \/ DisplayFlowTable
    \/ MainReturn
    \/ SetupModelNew
    \/ LoadConfigIter
    \/ LoadConfigReturn
    \/ SetupModelWeather
    \/ RunModelCall
    \/ SweepSubmit
    \/ ChunkTake
    \/ TaskStart
    \/ TaskFinish
    \/ SweepGather
    \/ SweepWrite
    \/ SweepPlot
    \/ SetInletConditionsCall
    \/ TroughFrame
    \/ TroughEvaluate
    \/ TroughSet
    \/ TroughSolve
    \/ TroughCheck
    \/ TroughComplete
    \/ CalculateScalingFactorsCall

Spec == Init /\ [][Next]_vars

\* a run has ended: it returned or an exception left the entry point
Done == status \in {"returned", "raised"}

TypeOK ==
    /\ entry \in {"main", "solve", "load_config", "setup_model", "run_model", "sweep",
                 "set_inlet_conditions", "initialize_build",
                 "calculate_scaling_factors"}
    /\ status \in {"running", "returned", "raised"}
    /\ error \in {"none", "InitializationError", "RuntimeError", "AssertionError", "Exception",
                  "IndexError"}
    /\ mainIp \in 1..(Len(MainBody) + 1)
    /\ initIp \in 0..(Len(InitSystemBody) + 1)
    /\ arcs \subseteq ArcNames
    /\ initialized \subseteq Units
    /\ propagated \subseteq ArcNames
    /\ dof \in 0..MaxDof
    /\ termination \in Terminations \cup {"none"}
    /\ result \in Terminations \cup {"none"}
    /\ lcI \in 0..(nMods + 1)


----------------------------------------------------------------------------
(* Properties *)

\* the log restricted to the events of set S
RECURSIVE Restrict(_, _)
Restrict(s, S) ==
    IF s = << >> THEN << >>
    ELSE IF Head(s) \in S THEN << Head(s) >> \o Restrict(Tail(s), S)
    ELSE Restrict(Tail(s), S)

IsPrefix(s, t) == Len(s) <= Len(t) /\ s = SubSeq(t, 1, Len(s))

\* units whose local initialization was started and did not complete
FailedUnits == {u \in Units : IdxOf(log, "initialize", u) # {}} \ initialized

\* the seven connections of the KBHDP train, as <<source unit, destination unit>>
TrainConnections ==
    { <<"feed", "primary_pump">>, <<"primary_pump", "softener">>,
      <<"softener", "MCAS_to_NaCl_translator">>, <<"MCAS_to_NaCl_translator", "UF">>,
      <<"UF", "RO">>, <<"RO", "product">>, <<"RO", "disposal">> }

\* C1: in every run of main, network.expand_arcs is applied exactly once, after
\* all seven arcs of the train have been declared and before any operating
\* variable is fixed.
C1_ExpandOnceAfterArcsBeforeFix ==
    entry = "main" =>
        /\ expandCount = Cardinality(Idx(log, "expand_arcs"))
        /\ expandCount = (IF IdxOf(log, "call", "add_connections") # {} THEN 1 ELSE 0)
        /\ \A e \in Idx(log, "expand_arcs") :
              /\ {<<ArcOf(log[j].x).src, ArcOf(log[j].x).dst>> :
                     j \in {i \in Idx(log, "arc") : i < e}} = TrainConnections
              /\ \A j \in Idx(log, "arc") : j < e
              /\ \A j \in Idx(log, "fix") : e < j
        /\ (fixed # {} => expandCount = 1)

C1_Witness ==
    /\ entry = "main" /\ expandCount = 1
    /\ Cardinality(arcs) = Cardinality(TrainConnections)
    /\ "primary_pump.outlet.pressure" \in fixed

\* the stages of the pipeline in the order the specification gives them
StageOrder ==
    << Ev("call", "build_system"), Ev("call", "add_connections"),
       Ev("call", "add_constraints"), Ev("call", "set_operating_conditions"),
       Ev("call", "init_system"), Ev("call", "solve"),
       Ev("report", "display_flow_table") >>

StageSet == {StageOrder[i] : i \in 1..Len(StageOrder)}

\* build -> connect -> constrain -> set-conditions -> initialize -> solve -> report:
\* the stages started so far are an initial part of that order, init_system has
\* returned when solve starts, and a run that returns has gone through all of them
StagesInOrder ==
    entry = "main" =>
        /\ IsPrefix(Restrict(log, StageSet), StageOrder)
        /\ \A i \in IdxOf(log, "call", "solve") :
              \E j \in IdxOf(log, "return", "init_system") : j < i
        /\ (status = "returned" => Restrict(log, StageSet) = StageOrder)

\* C2 as stated: the stages run in the fixed order and no report step runs
\* before the solve.
C2_Original ==
    /\ StagesInOrder
    /\ entry = "main" =>
          \A i \in Idx(log, "report") : \E j \in Idx(log, "solver") : j < i

\* C2, amended: the stages run in the fixed order, none skipped or repeated, and
\* the final report (display_flow_table) runs only after solve has returned; the
\* feed-concentration reports and the RO stage report do run before the solve.
C2_StagesInOrderFinalReportAfterSolve ==
    /\ StagesInOrder
    /\ entry = "main" =>
          /\ \A i \in IdxOf(log, "report", "display_flow_table") :
                /\ \E j \in Idx(log, "solver") : j < i
                /\ result # "none"
          /\ \A i \in Idx(log, "solver") :
                /\ \E j \in IdxOf(log, "report", "report_MCAS_stream_conc") : j < i
                /\ \E j \in IdxOf(log, "report", "RO.stage[1].module.report") : j < i

C2_Witness ==
    /\ entry = "main" /\ status = "returned"
    /\ log[Len(log)] = Ev("report", "display_flow_table")

\* the order in which the train is walked from the feed to the two sinks
UpstreamToDownstream ==
    << "feed", "primary_pump", "softener", "MCAS_to_NaCl_translator", "UF", "RO",
       "product", "disposal" >>

\* C3: init_system initializes the units in upstream-to-downstream order; the
\* arc into a unit is propagated before the unit is initialized, and an arc is
\* propagated only after its source unit has been initialized.
C3_TopologicalInit ==
    entry = "main" =>
        /\ IsPrefix([i \in 1..Len(Restrict(log, {Ev("initialize", u) : u \in Units}))
                        |-> Restrict(log, {Ev("initialize", u) : u \in Units})[i].x],
                    UpstreamToDownstream)
        /\ \A i \in Idx(log, "initialize") :
              \A a \in ArcNames :
                 ArcOf(a).dst = log[i].x =>
                    \E j \in IdxOf(log, "propagate_state", a) : j < i
        /\ \A i \in Idx(log, "propagate_state") :
              /\ \E j \in IdxOf(log, "initialize", ArcOf(log[i].x).src) : j < i
              /\ ArcOf(log[i].x).src \in initialized
        /\ \A a \in propagated : ArcOf(a).src \in initialized
        /\ \A u \in initialized :
              \A a \in ArcNames : ArcOf(a).dst = u => a \in propagated

C3_Witness ==
    /\ entry = "main" /\ initialized = Units /\ propagated = ArcNames
    /\ IdxOf(log, "return", "init_system") # {}

\* C4: when a unit's local initialization fails, the sequence stops there: the
\* failed call is the last thing the run did, the unit was tried once, and the
\* global solve is never invoked.
C4_InitFailureStopsRun ==
    entry = "main" =>
        \A u \in FailedUnits :
            /\ status = "raised" /\ error = "InitializationError"
            /\ log[Len(log)] = Ev("initialize", u)
            /\ Cardinality(IdxOf(log, "initialize", u)) = 1
            /\ Idx(log, "solver") = {} /\ solverCalls = 0
            /\ IdxOf(log, "call", "solve") = {}

C4_Witness ==
    /\ entry = "main" /\ FailedUnits = {"UF"}
    /\ status = "raised" /\ "softener" \in initialized

\* C5: when a unit's local initialization fails, main surfaces the diagnostic
\* state (unfixed variables, violated bounds) before the run halts.
C5_DiagnosticsOnInitFailure ==
    (entry = "main" /\ FailedUnits # {} /\ Done) =>
        \/ Idx(log, "diagnostic") # {}
        \/ IdxOf(log, "call", "display_unfixed_vars") # {}

\* C6 as stated: no solver invocation, local initialization or global solve,
\* happens while the degrees of freedom are nonzero.
C6_Original ==
    entry = "main" =>
        ((Idx(log, "initialize") \cup Idx(log, "solver")) # {} => dof = 0)

\* C6, amended: nonzero degrees of freedom are detected by the assertion that
\* closes init_system, after the units' local initialization solves and before
\* the global solve: the global solve is never invoked while they are nonzero,
\* and a nonzero count ends the run at that assertion.
C6_DofCheckedBeforeGlobalSolve ==
    entry = "main" =>
        /\ (Idx(log, "solver") # {} => dof = 0)
        /\ (IdxOf(log, "call", "solve") # {} => dof = 0)
        /\ (dof # 0 /\ initialized = Units) =>
              \/ status = "running" /\ MainBody[mainIp] = "init_system"
              \/ /\ status = "raised" /\ error = "InitializationError"
                 /\ log[Len(log)] = Ev("assert_no_degrees_of_freedom", "m")

C6_Witness ==
    /\ entry = "main" /\ dof # 0 /\ initialized = Units
    /\ status = "raised"
    /\ log[Len(log)] = Ev("assert_no_degrees_of_freedom", "m")

\* C7: each call of solve invokes the external solver exactly once, whatever
\* the termination and raise_on_failure; on optimal termination it returns that
\* result without diagnostics and without raising.
C7_SolveOnce ==
    /\ Cardinality(Idx(log, "solver")) = Cardinality(IdxOf(log, "call", "solve"))
    /\ solverCalls = Cardinality(IdxOf(log, "call", "solve"))
    /\ solverCalls <= 1
    /\ termination # "none" => solverCalls = 1
    /\ termination \in {"optimal", "locallyOptimal"} =>
          /\ result = termination
          /\ status # "raised" /\ error = "none"
          /\ Idx(log, "diagnostic") = {} /\ Idx(log, "raise") = {}

C7_Witness ==
    /\ termination = "infeasible" /\ solverCalls = 1 /\ ~raiseOnFailure
    /\ status = "returned"

\* C8: on a non-optimal termination with raise_on_failure true, solve prints
\* the infeasible-bounds and close-to-bounds diagnostics, then raises
\* RuntimeError; it returns nothing and main does not reach its final report.
C8_RaiseAfterDiagnostics ==
    (termination \notin {"none", "optimal", "locallyOptimal"} /\ raiseOnFailure) =>
        /\ status = "raised" /\ error = "RuntimeError"
        /\ result = "none"
        /\ \E s \in Idx(log, "solver") :
           \E b \in IdxOf(log, "diagnostic", "print_infeasible_bounds") :
           \E c \in IdxOf(log, "diagnostic", "print_close_to_bounds") :
           \E r \in IdxOf(log, "raise", "RuntimeError") :
              s < b /\ b < c /\ c < r /\ r = Len(log)
        /\ IdxOf(log, "report", "display_flow_table") = {}

C8_Witness ==
    /\ entry = "main" /\ termination = "infeasible" /\ raiseOnFailure
    /\ status = "raised" /\ error = "RuntimeError"

\* C9: on a non-optimal termination with raise_on_failure false, solve returns
\* the raw result, raises nothing and prints no infeasibility diagnostics.
C9_ReturnNonOptimalSilently ==
    (termination \notin {"none", "optimal", "locallyOptimal"} /\ ~raiseOnFailure) =>
        /\ status = "returned" /\ error = "none"
        /\ result = termination
        /\ Idx(log, "diagnostic") = {}
        /\ Idx(log, "raise") = {}

C9_Witness ==
    /\ entry = "solve" /\ ~raiseOnFailure /\ result = "maxIterations"
    /\ status = "returned"

\* C10: load_config on a non-empty list of modules with neither file_names nor
\* module_data fails with an error and assigns nothing to any module; so
\* setup_model with neither config_files nor config_data fails and returns no
\* model.
C10_NoSourceFails ==
    (entry \in {"load_config", "setup_model"} /\ fileNames = None /\ moduleData = None) =>
        /\ valueCalls = 0
        /\ \A i \in 1..nMods : mods[i] = {}
        /\ nMods >= 1 =>
              /\ status # "returned"
              /\ lcI = 1
              /\ Done => (error = "Exception" /\ log[Len(log)] = Ev("raise", "Exception"))
              /\ ~Done => ENABLED LoadConfigIter
        /\ entry = "setup_model" =>
              /\ ~retModel
              /\ status # "returned"
              /\ Idx(log, "set") = {}
              /\ ~Done => ENABLED (SetupModelNew \/ LoadConfigIter)

C10_Witness ==
    /\ entry = "setup_model" /\ fileNames = None /\ moduleData = None
    /\ weather = "file" /\ nMods = 1
    /\ status = "raised" /\ error = "Exception"


\* the keys of dictionary d that belong to K, in the order of d
RECURSIVE KeysWhere(_, _)
KeysWhere(d, K) ==
    IF d = << >> THEN << >>
    ELSE IF Head(d)[1] \in K THEN << Head(d)[1] >> \o KeysWhere(Tail(d), K)
    ELSE KeysWhere(Tail(d), K)

\* C11: in load_config a key the module rejects is collected and skipped: every
\* key but "number_inputs" is attempted, a rejected key raises nothing, and
\* every accepted key is assigned, however many rejected keys precede it, for
\* each module of the list.
C11_RejectedKeysSkipped ==
    (entry \in {"load_config", "setup_model"} /\ lcI >= 2) =>
        /\ mods[lcI - 1] = {lastData[i] : i \in {j \in 1..Len(lastData) :
                                                    lastData[j][1] \in KnownParams}}
        /\ missing = KeysWhere(lastData, Keys \ (KnownParams \cup {"number_inputs"}))
        /\ valueCalls = Len(KeysWhere(lastData, Keys \ {"number_inputs"}))
        /\ \A i \in lcI..nMods : mods[i] = {}
        /\ status = "raised" =>
              /\ entry = "setup_model" /\ weather = "none" /\ lcI = nMods + 1
              /\ log[Len(log)] = Ev("raise", "Exception")

C11_Witness ==
    /\ entry = "load_config" /\ nMods = 2 /\ lcI = 3 /\ status = "returned"
    /\ lastData = << <<"not_a_parameter", 1>>, <<"tshours", 2>> >>
    /\ mods[2] = {<<"tshours", 2>>}
    /\ missing = << "not_a_parameter" >>


\* a quotient num / den * times lies in [0, 100]
InPercentRange(c) ==
    /\ ~c.nan /\ c.times = 100
    /\ 0 <= c.num /\ c.num <= c.den

\* the design heat load the module holds when the capacity factor is computed
DesignHeatLoad == techModel.q_pb_design

\* C15: the capacity factor is annual_energy / (design_capacity_rate *
\* hours_per_year) in percent and lies within [0, 100] % for every in-range
\* evaluation.
C15_CapacityFactorBounded ==
    (entry = "run_model" /\ runResult.returned) =>
        /\ runResult.capacity_factor.num = runResult.annual_energy.v
        /\ runResult.capacity_factor.den = DesignHeatLoad * 1000 * 8760
        /\ runResult.capacity_factor.times = 100
        /\ InPercentRange(runResult.capacity_factor)


\* evaluations the pool has handed to a worker
Dispatched == {t \in 1..Len(taskSt) : taskSt[t] \in {"running", "ok", "failed"}}

\* rows of a written dataset keyed by the pair (h, s)
RowsKeyed(rows, h, s) ==
    {r \in 1..Len(rows) : rows[r].heat_load = h /\ rows[r].hours_storage = s}

\* the script's 50 x 25 grid has 1,250 pairwise different pairs
FullGridComplete ==
    /\ Len(FullArguments) = 1250
    /\ Cardinality({FullArguments[i] : i \in 1..Len(FullArguments)}) = 1250

\* C12: the dataset written by the sweep has one row per grid pair, 1,250 rows
\* for the 50 x 25 grid, and every grid pair is the key of exactly one row,
\* whatever the order in which the workers complete.
C12_OneRowPerGridPair ==
    /\ FullGridComplete
    /\ (entry = "sweep" /\ swPc = "written") =>
          /\ Len(pickled) = Len(HeatLoads) * Len(HoursStorages)
          /\ \A i \in 1..Len(HeatLoads) : \A j \in 1..Len(HoursStorages) :
                Cardinality(RowsKeyed(pickled, HeatLoads[i], HoursStorages[j])) = 1

\* the dataset is written after a sweep whose evaluations did not finish in the
\* order of their submission
C12_Witness ==
    /\ entry = "sweep" /\ swPc = "written"
    /\ Len(pickled) = NumTasks
    /\ outOfOrder

\* C13: every evaluation creates its own model instance and loads the
\* configuration into it before running; no instance is used by two
\* evaluations; the result of an evaluation is a function of its own
\* (heat_load, hours_storage) only.
C13_EvaluationsIndependent ==
    entry = "sweep" =>
        /\ Cardinality(instances) = Cardinality(Dispatched)
        /\ \A w \in workers :
              taskSt[w.task] = "running" =>
                  /\ w.inst \in instances
                  /\ \A v \in workers : v # w => v.inst # w.inst
                  /\ \A i \in 1..Len(swConfig) :
                        << swConfig[i][1], swConfig[i][2] >> \in w.mod
        /\ \A t \in 1..Len(taskSt) :
              taskSt[t] = "ok" =>
                  taskResult[t] =
                      SetupAndRunResult({}, Arguments[t][1], Arguments[t][2])

\* one worker has finished the first evaluation of its chunk and runs the
\* second one on a new instance, while another worker runs the next chunk
C13_Witness ==
    /\ entry = "sweep" /\ swPc = "pool" /\ TaskChunk = 2
    /\ taskSt[1] = "ok" /\ taskSt[2] = "running" /\ taskSt[3] = "running"
    /\ instances = {1, 2, 3}
    /\ \E w, v \in workers : w.task = 2 /\ w.inst = 3 /\ v.task = 3 /\ v.inst = 2

\* C14: the results are gathered, and the dataset assembled and written, only
\* after every submitted evaluation has returned; if an evaluation fails no
\* dataset is written, and the script ends with the exception only when no
\* evaluation is running any more: each one returned, raised, or was left out
\* because an earlier one of its chunk raised.
C14_GatherAfterAllComplete ==
    entry = "sweep" =>
        /\ swPc \in {"gathered", "written"} =>
              /\ \A t \in 1..Len(taskSt) : taskSt[t] = "ok"
              /\ results = taskResult
        /\ swPc \in {"start", "pool"} => pickled = << >> /\ results = << >>
        /\ (\E t \in 1..Len(taskSt) : taskSt[t] = "failed") =>
              /\ pickled = << >>
              /\ swPc = "pool"
        /\ (status = "raised" /\ swPc = "pool") =>
              /\ \A t \in 1..Len(taskSt) : taskSt[t] \in {"ok", "failed", "skipped"}
              /\ \E t \in 1..Len(taskSt) : taskSt[t] = "failed"
              /\ \A t \in 1..Len(taskSt) :
                    taskSt[t] = "skipped" =>
                        \E u \in ChunkFirst(ChunkOf(t))..(t - 1) : taskSt[u] = "failed"

\* the sweep ended with the exception of its only failed evaluation, the first
\* one: the second one, of the same chunk, was not run and every other returned
C14_Witness ==
    /\ entry = "sweep" /\ status = "raised" /\ pickled = << >>
    /\ taskSt[1] = "failed" /\ taskSt[2] = "skipped"
    /\ \A t \in 3..Len(taskSt) : taskSt[t] = "ok"
    /\ ChunkSize(Len(FullArguments), Processes) = 53


RECURSIVE SumSeq(_)
SumSeq(q) == IF q = << >> THEN 0 ELSE Head(q) + SumSeq(Tail(q))

\* set_inlet_conditions has run: its last fixing is in the log
InletSet == \E i \in 1..Len(log) : log[i] = Ev("fix", "primary_pump.efficiency_pump")

\* concentration in g/m3 of a solute in the feed, from its fixed mass flow and
\* the fixed water flow at 1000 kg/m3
FeedConc(x) ==
    ((fixedVal[x].num * 1000) \div (fixedVal[x].den \div 1000))
        \div fixedVal["feed.flow_mass_phase_comp[H2O]"].num

\* feed TDS in g/m3: the sum of the solutes' concentrations
FeedTDS == SumSeq([i \in 1..Len(InletSolutes) |-> FeedConc(InletSolutes[i])])

\* C16: with the feed water flow fixed at 1 kg/s, the concentrations set by
\* set_inlet_conditions (Ca, Mg, Alkalinity, SiO2, Cl, Na, K, SO4) sum to
\* approximately 2.487 kg/m3.
C16_Original ==
    (InletSet /\ fixedVal["feed.flow_mass_phase_comp[H2O]"] = Frac(1, 1)) =>
        FeedTDS = 2487

\* C16, amended: with the feed water flow fixed at 1 kg/s, the concentrations
\* set by set_inlet_conditions sum to 2.467 kg/m3.
C16_FeedTdsIsTableSum ==
    (InletSet /\ fixedVal["feed.flow_mass_phase_comp[H2O]"] = Frac(1, 1)) =>
        /\ FeedTDS = 2467
        /\ FeedTDS = SumSeq([i \in 1..Len(InletDict) |-> InletDict[i][2]])
        /\ {InletDict[i][1] : i \in 1..Len(InletDict)}
              = {InletSolutes[i] : i \in 1..Len(InletSolutes)}

\* set_inlet_conditions returned after a call with Qin absent
C16_Witness ==
    /\ entry = "set_inlet_conditions" /\ status = "returned"
    /\ inletArgs.Qin = {}
    /\ fixedVal["feed.flow_mass_phase_comp[H2O]"] = Frac(1, 1)
    /\ fixedVal["Cl_-"] = Frac(1180, 1000000)

\* C17: set_inlet_conditions fixes the feed water flow first (Qin, or 1 when Qin
\* is absent), then for every solute of the inlet table fixes its feed mass flow
\* to water_flow / 1000 * concentration and next sets its default scaling factor
\* to 1 / that value; afterwards every fixed solute's scaling factor is the
\* reciprocal of its fixed flow and the water scaling factor is the reciprocal
\* of the fixed water flow.
C17_SoluteFlowAndReciprocalScaling ==
    InletSet =>
        LET q == fixedVal["feed.flow_mass_phase_comp[H2O]"]
            w == IdxOf(log, "fix", "feed.flow_mass_phase_comp[H2O]")
            sf == scaling.MCAS_properties
        IN  /\ q = Frac(IF inletArgs.Qin = {} THEN 1 ELSE CHOOSE v \in inletArgs.Qin : TRUE, 1)
            /\ sf["H2O"].num * q.num = sf["H2O"].den * q.den
            /\ \A i \in 1..Len(InletDict) :
                  LET x == InletDict[i][1]
                      f == IdxOf(log, "fix", x)
                  IN  /\ x \in fixed
                      /\ fixedVal[x] = Frac(q.num * InletDict[i][2], 1000 * 1000)
                      /\ sf[x].num = fixedVal[x].den
                      /\ sf[x].den = fixedVal[x].num
                      /\ \A j \in f : \A k \in w : k < j
                      /\ \A j \in f : log[j + 1] = Ev("scale", x)
                      /\ Cardinality(f) = 1

\* set_inlet_conditions returned after a call with Qin = 2 kg/s
C17_Witness ==
    /\ entry = "set_inlet_conditions" /\ status = "returned"
    /\ inletArgs.Qin = {2}
    /\ fixedVal["Na_+"] = Frac(1540, 1000000)
    /\ scaling.MCAS_properties["Na_+"] = Frac(1000000, 1540)
    /\ scaling.MCAS_properties["H2O"] = Frac(1, 2)
    /\ scaling.MCAS_properties["NaCl"] = Frac(1, 10)

\* C18: after set_inlet_conditions, for every combination of its arguments,
\* exactly one of the system water recovery and the primary pump's outlet
\* pressure is fixed: never both, never neither.
C18_OneOperatingMode ==
    InletSet =>
        /\ "water_recovery" \in sysVars
        /\ ("water_recovery" \in fixed) # ("primary_pump.outlet.pressure" \in fixed)

\* set_inlet_conditions returned after a call that supplied water_recovery
C18_Witness ==
    /\ entry = "set_inlet_conditions" /\ status = "returned"
    /\ inletArgs.water_recovery = {50}
    /\ "primary_pump.outlet.pressure" \in fixed
    /\ fixedVal["primary_pump.outlet.pressure"] = Frac(inletArgs.primary_pump_pressure, 1)


\* every event Ev(k1, x1) of the log comes before every event Ev(k2, x2)
Before(k1, x1, k2, x2) ==
    \A i \in IdxOf(log, k1, x1) : \A j \in IdxOf(log, k2, x2) : i < j

\* the event Ev(k, x) is in the log
Logged(k, x) == IdxOf(log, k, x) # {}

\* C19: initialize_build evaluates the surrogate once, at the unit's current
\* (heat_load, hours_storage); it writes the scaled annual heat and electricity
\* outputs into the unit before heat and electricity are derived from them and
\* before the unit's local solve; if the local solve is not optimal it raises an
\* InitializationError naming the unit and never completes normally.
C19_SurrogateThenRatesThenSolve ==
    entry = "initialize_build" =>
        /\ Cardinality(IdxOf(log, "call", "surrogate.evaluate_surrogate")) <= 1
        /\ Logged("set", "heat_annual_scaled") =>
              /\ Logged("call", "surrogate.evaluate_surrogate")
              /\ trData = [heat_load |-> trough.heat_load,
                           hours_storage |-> trough.hours_storage]
              /\ trough.heat_annual_scaled = trOut.heat_annual_scaled
        /\ Logged("set", "electricity_annual_scaled") =>
              trough.electricity_annual_scaled = trOut.electricity_annual_scaled
        /\ Logged("set", "heat") =>
              /\ Logged("set", "heat_annual_scaled")
              /\ Logged("set", "electricity_annual_scaled")
              /\ trough.heat = Frac(trOut.heat_annual_scaled,
                                    trough.heat_annual_scaling * 8766)
        /\ Logged("set", "electricity") =>
              /\ Logged("set", "electricity_annual_scaled")
              /\ trough.electricity = Frac(trOut.electricity_annual_scaled,
                                           trough.electricity_annual_scaling * 8766)
        /\ Logged("call", "opt.solve") =>
              /\ Logged("set", "heat") /\ Logged("set", "electricity")
              /\ Cardinality(IdxOf(log, "call", "surrogate.evaluate_surrogate")) = 1
        /\ (trRes \notin {"none", "optimal", "locallyOptimal"}) =>
              /\ status # "returned"
              /\ trIp <= Len(InitializeBuildBody) - 1
        /\ status = "raised" =>
              /\ error = "InitializationError"
              /\ trMsg = << "Unit model ", trough.name, " failed to initialize" >>
              /\ ~Logged("print", "Initialization Complete")
        /\ status = "returned" => trRes \in {"optimal", "locallyOptimal"}

\* the local solve of the unit was infeasible and initialize_build raised
C19_Witness ==
    /\ entry = "initialize_build" /\ status = "raised"
    /\ trRes = "infeasible"
    /\ trough.name = "fs.energy.trough" /\ trMsg[2] = "fs.energy.trough"
    /\ trough.heat_annual_scaled = 2 /\ trough.heat = Frac(2, 8766)


\* units an arc of the set A leads to from a unit of S
Successors(S, A) == {ArcOf(a).dst : a \in {b \in A : ArcOf(b).src \in S}}

RECURSIVE ReachFrom(_, _)
\* units reachable from S along one or more arcs of A
ReachFrom(S, A) ==
    LET T == S \cup Successors(S, A)
    IN  IF T = S THEN Successors(S, A) ELSE ReachFrom(T, A) \cup Successors(S, A)

\* units reachable from u along one or more arcs of A
Downstream(u, A) ==
    LET first == Successors({u}, A)
    IN  IF first = {} THEN {} ELSE first \cup ReachFrom(first, A)

\* What build_system and add_connections determine of the flowsheet: every arc
\* between two units that build_system gives a package joins equal contexts;
\* of these units only the translator has differing inlet and outlet contexts,
\* MCAS and NaCl; the arc graph has no cycle and is a train from the feed to
\* the product and disposal sinks. The contexts of the UF and RO ports, and so
\* of the four arcs that touch them, are not determined.
KnownContextsMatchAcyclicTrain ==
    /\ \A a \in arcs :
          (ArcOf(a).src \in DOMAIN BuildPackages /\ ArcOf(a).dst \in DOMAIN BuildPackages)
              => OutletContext(ArcOf(a).src) = InletContext(ArcOf(a).dst)
    /\ arcs = ArcNames =>
          /\ {u \in DOMAIN BuildPackages : InletContext(u) # OutletContext(u)}
                = {"MCAS_to_NaCl_translator"}
          /\ InletContext("MCAS_to_NaCl_translator") = "MCAS"
          /\ OutletContext("MCAS_to_NaCl_translator") = "NaCl"
          /\ \A u \in Units : u \notin Downstream(u, arcs)
          /\ Downstream("feed", arcs) = Units \ {"feed"}
          /\ \A a \in arcs : ArcOf(a).dst # "feed"
          /\ \A a \in arcs : ArcOf(a).src \notin {"product", "disposal"}
          /\ \A u \in Units \ {"product", "disposal"} :
                Downstream(u, arcs) \cap {"product", "disposal"} # {}
          /\ \A a, b \in arcs : (a # b) => ArcOf(a).dst # ArcOf(b).dst


\* the result columns of a dataset row
ResultColumns(row) ==
    [ annual_energy |-> row.annual_energy,
      freeze_protection |-> row.freeze_protection,
      capacity_factor |-> row.capacity_factor,
      electrical_load |-> row.electrical_load ]

\* what the evaluation of the pair (h, s) returns, as result columns
EvaluationOf(h, s) == ResultColumns(SetupAndRunResult(SetupModel(swConfig), h, s))

\* C21: in the written dataset the result columns of row i are the results of
\* the evaluation run with the (heat_load, hours_storage) key of row i, for
\* every i, whichever worker ran each evaluation and in whatever order the
\* evaluations finished.
C21_RowsAlignedWithKeys ==
    (entry = "sweep" /\ swPc = "written") =>
        /\ Len(pickled) = Len(Arguments)
        /\ \A i \in 1..Len(pickled) :
              /\ << pickled[i].heat_load, pickled[i].hours_storage >> = Arguments[i]
              /\ ResultColumns(pickled[i]) = ResultColumns(taskResult[i])
              /\ ResultColumns(pickled[i])
                    = EvaluationOf(pickled[i].heat_load, pickled[i].hours_storage)
        /\ \A i, j \in 1..Len(pickled) :
              i # j => ResultColumns(pickled[i]) # ResultColumns(pickled[j])

\* a dataset written after evaluations finished out of order: its second row
C21_Witness ==
    /\ entry = "sweep" /\ swPc = "written" /\ outOfOrder
    /\ pickled[2].heat_load = 1 /\ pickled[2].hours_storage = 1
    /\ pickled[2].annual_energy = F(EnergyStep)
    /\ pickled[2].electrical_load = F(KwPerMw)


\* a simulation output with NaN read as 0
ZeroIfNan(x) == IF x.nan THEN 0 ELSE x.v

\* C22: run_model treats a NaN field or storage freeze-protection output as 0:
\* the returned freeze_protection is the sum of the two terms with each NaN
\* term replaced by 0, the returned annual_energy is the model's annual energy
\* minus that sum, and a NaN freeze-protection output alone never makes the
\* returned freeze_protection, annual_energy or capacity_factor NaN.
C22_NanFreezeProtectionIsZero ==
    (entry = "run_model" /\ runResult.returned) =>
        LET o == techModel.outputs
            sum == ZeroIfNan(o.annual_field_freeze_protection)
                     + ZeroIfNan(o.annual_tes_freeze_protection)
        IN  /\ runResult.freeze_protection = F(sum)
            /\ ~o.annual_energy.nan =>
                  /\ runResult.annual_energy = F(o.annual_energy.v - sum)
                  /\ ~runResult.capacity_factor.nan
                  /\ runResult.capacity_factor.num = o.annual_energy.v - sum
            /\ o.annual_energy.nan =>
                  runResult.annual_energy.nan /\ runResult.capacity_factor.nan

\* run_model returned after a simulation whose field freeze protection was NaN
C22_Witness ==
    /\ entry = "run_model" /\ runResult.returned
    /\ techModel.outputs.annual_field_freeze_protection = NaN
    /\ techModel.outputs.annual_tes_freeze_protection = F(EnergyStep)
    /\ techModel.outputs.annual_energy = F(2 * EnergyStep)
    /\ runResult.freeze_protection = F(EnergyStep)
    /\ runResult.annual_energy = F(EnergyStep)


\* C23: calculate_scaling_factors never overwrites a scaling factor that is
\* already set: for each of hours_storage, heat_load, heat_annual_scaled, heat,
\* electricity_annual_scaled, electricity, total_aperture_area and land_area it
\* assigns the default only when no factor exists, so calling it twice leaves
\* the same factors as calling it once.
C23_ScalingFactorsKeptAndIdempotent ==
    (entry = "calculate_scaling_factors" /\ sfCalls >= 1) =>
        /\ DOMAIN trSf = {"hours_storage", "heat_load", "heat_annual_scaled", "heat",
                          "electricity_annual_scaled", "electricity",
                          "total_aperture_area", "land_area"}
        /\ \A x \in DOMAIN trSf :
              /\ trSf[x].set
              /\ trSfInit[x].set => trSf[x] = trSfInit[x]
              /\ ~trSfInit[x].set =>
                    \E i \in 1..Len(ScalingDefaults) :
                        ScalingDefaults[i] = << x, trSf[x].sf >>
        /\ trSf = trSfOnce

\* a second call on a unit whose heat_load factor was set by the user and whose
\* heat factor was not
C23_Witness ==
    /\ entry = "calculate_scaling_factors" /\ sfCalls = 2
    /\ trSfInit["heat_load"] = Factor(UserFactor) /\ ~trSfInit["heat"].set
    /\ trSf["heat_load"] = Factor(Frac(5, 1))
    /\ trSf["heat"] = Factor(Frac(1, 10000))


\* C24: after the dataset is written, each of the three plot calls (z columns
\* 2, 4 and 6) refers to a column that exists in the assembled dataset, whose
\* columns are heat_load, hours_storage, annual_energy, freeze_protection,
\* capacity_factor, electrical_load; the script runs to completion once all
\* evaluations succeed.
C24_PlotColumnsExist ==
    (entry = "sweep" /\ swPc = "written") =>
        /\ DatasetColumns = << "heat_load", "hours_storage", "annual_energy",
                               "freeze_protection", "capacity_factor", "electrical_load" >>
        /\ status # "raised"
        /\ \A i \in 1..Len(PlotCalls) :
              i <= Len(plots) + 1 => PlotCalls[i][3] < Len(DatasetColumns)

====
